---- MODULE Spec2Model ----
(***************************************************************************)
(* rtv: a non-blocking HTTP/1.1 client on top of mio.                      *)
(*                                                                         *)
(* The model covers Client (src/src/client.rs) and DnsClient               *)
(* (src/src/dns.rs): send, pump, the address cache, the resolver, and the  *)
(* environment they run against (clock, TCP peers, the DNS server).        *)
(*                                                                         *)
(* Bytes are strings.  A response head is a sequence of line tokens:       *)
(*   "S"          the status line                                          *)
(*   "L0".."L3"   a header line  Content-Length: n                         *)
(*   "T"          the header line  Transfer-Encoding: chunked              *)
(*   "E"          the empty line that ends the head                        *)
(*   "!"          a line httparse rejects                                  *)
(* Body bytes are "0".."3", "a" (hexadecimal digits), "x" (not a digit),   *)
(* "CR" and "LF".                                                          *)
(***************************************************************************)
EXTENDS Integers, Sequences, FiniteSets, TLC

VARIABLES
    now,        \* the clock (Instant::now()), in ticks
    requests,   \* Client.requests
    next_id,    \* Client.next_id
    dns_cache,  \* Client.dns_cache: host -> <<>> or <<CachedAddr>>
    dns,        \* Client.dns: the DnsClient; edge: the poller still owes its socket a writable event
    conns,      \* ticket -> the TCP connection of that request and its peer
    dnsWire,    \* queries the DNS server has received and not answered
    dnsIn,      \* datagrams waiting in the resolver socket's receive queue
    queries,    \* history: host -> number of query packets sent for it
    emitted,    \* history: ticket -> the events pump has returned for it
    failed,     \* history: some send or pump call returned Err
    submits,    \* history: ticket -> how its send found the cache and the resolver
    ret         \* the call that has just returned (NoCall after an
                \* environment step)

vars == <<now, requests, next_id, dns_cache, dns, conns, dnsWire, dnsIn,
          queries, emitted, failed, submits, ret>>

----------------------------------------------------------------------------
(* Bounds of the model *)

MaxTime == 2
MaxTimeout == 1
MaxTTL == 1
MaxHeaders == 2
MaxQueries == 2
MaxSimple == 2
MaxDuration == 4
RequestLen == 2

Hosts == {"h1", "h2"}
Tokens == {1, 2}
Tickets == {0, 1}

(* Option<T>: None is <<>>, Some(x) is <<x>> *)
None == <<>>
Some(x) == <<x>>
IsSome(o) == o # <<>>
Unwrap(o) == o[1]

Min(a, b) == IF a <= b THEN a ELSE b

----------------------------------------------------------------------------
(* Program constants *)

DnsToken == 0
ReadChunk == 2048

----------------------------------------------------------------------------
(* Time *)

\* Instant::elapsed
Elapsed(t) == now - t

\* request.timeout.unwrap_or(Duration::MAX) <= request.time_created.elapsed()
DeadlineElapsed_strict(r) == IsSome(r.timeout) /\ Unwrap(r.timeout) < Elapsed(r.time_created)
DeadlineElapsed(r) == IsSome(r.timeout) /\ Unwrap(r.timeout) <= Elapsed(r.time_created)

\* util::is_elapsed(time_created, timeout)
is_elapsed(time_created, timeout) == IsSome(timeout) /\ Unwrap(timeout) <= Elapsed(time_created)

\* CachedAddr::is_outdated
is_outdated_inclusive(c) == c.ttl < Elapsed(c.time_created)
is_outdated(c) == c.ttl <= Elapsed(c.time_created)

----------------------------------------------------------------------------
(* The response head: httparse::Response::parse on the line tokens *)

\* the header lines: Content-Length: 0 .. 3, Content-Length with a value that
\* is not a number (Lx), Transfer-Encoding: chunked (T) and Transfer-Encoding:
\* gzip (Tg)
HeaderLines == {"L0", "L1", "L2", "L3", "Lx", "T", "Tg"}
ContentLengthValue == [b \in {"L0", "L1", "L2", "L3"} |-> CASE b = "L0" -> 0 [] b = "L1" -> 1 [] b = "L2" -> 2 [] b = "L3" -> 3]

\* 0: Status::Partial, -1: Err, k > 0: Status::Complete(k), the head is buf[1..k]
RECURSIVE ScanHead(_, _)
ScanHead(buf, i) ==
    IF i > Len(buf) THEN 0
    ELSE IF buf[i] = "E" THEN i
    ELSE IF buf[i] \in HeaderLines THEN ScanHead(buf, i + 1)
    ELSE -1

head_parse(buf) ==
    IF Len(buf) = 0 THEN 0
    ELSE IF buf[1] # "S" THEN -1
    ELSE ScanHead(buf, 2)

\* headers.find(name == "Content-Length") parsed, unwrap_or_default; -1 when
\* an expect on the value panics
RECURSIVE FindContentLength(_, _, _)
FindContentLength(buf, i, last) ==
    IF i > last THEN 0
    ELSE IF buf[i] \in DOMAIN ContentLengthValue THEN ContentLengthValue[buf[i]]
    ELSE IF buf[i] = "Lx" THEN -1
    ELSE FindContentLength(buf, i + 1, last)

\* headers.find(name == "Transfer-Encoding" && value == "chunked").is_some()
HasChunkedHeader(buf, last) == \E i \in 1 .. last : buf[i] = "T"

Drop(s, k) == SubSeq(s, k + 1, Len(s))
Take(s, k) == SubSeq(s, 1, k)

----------------------------------------------------------------------------
(* chunked_transfer::Decoder over Cursor(buffer).chain(connection).        *)
(* src is the bytes the chain can deliver now (cursor rest, then the       *)
(* socket's receive queue); when src is empty a read gives Ok(0) if the    *)
(* peer has closed (eof) and Err(WouldBlock) otherwise.                    *)

HexDigit == [b \in {"0", "1", "2", "3", "a"} |-> CASE b = "0" -> 0 [] b = "1" -> 1 [] b = "2" -> 2 [] b = "3" -> 3 [] b = "a" -> 10]
Whitespace == {"CR", "LF"}

\* str::trim
RECURSIVE TrimLeft(_)
TrimLeft(s) == IF s # <<>> /\ s[1] \in Whitespace THEN TrimLeft(Tail(s)) ELSE s
RECURSIVE TrimRight(_)
TrimRight(s) == IF s # <<>> /\ s[Len(s)] \in Whitespace THEN TrimRight(Take(s, Len(s) - 1)) ELSE s
Trim(s) == TrimRight(TrimLeft(s))

\* usize::from_str_radix(s, 16): -1 for Err
RECURSIVE HexFold(_, _)
HexFold(s, acc) ==
    IF s = <<>> THEN acc
    ELSE IF s[1] \notin DOMAIN HexDigit THEN -1
    ELSE HexFold(Tail(s), acc * 16 + HexDigit[s[1]])
from_str_radix16(s) == IF s = <<>> THEN -1 ELSE HexFold(s, 0)

\* Decoder::read_chunk_size: the digits read so far live in a local Vec, so
\* they are gone when a byte read fails with WouldBlock
RECURSIVE ReadSizeLine(_, _, _)
ReadSizeLine(src, eof, acc) ==
    IF src = <<>> THEN [res |-> IF eof THEN "invalid" ELSE "wouldblock", val |-> 0, src |-> src]
    ELSE IF src[1] = "CR" THEN
        \* read_line_feed: anything but Some(Ok('\n')) is InvalidInput
        IF Len(src) >= 2 /\ src[2] = "LF" THEN
            LET v == from_str_radix16(Trim(acc)) IN
            IF v < 0 THEN [res |-> "invalid", val |-> 0, src |-> Drop(src, 2)]
            ELSE [res |-> "ok", val |-> v, src |-> Drop(src, 2)]
        ELSE [res |-> "invalid", val |-> 0, src |-> Drop(src, Min(2, Len(src)))]
    ELSE ReadSizeLine(Tail(src), eof, Append(acc, src[1]))

read_chunk_size(src, eof) == ReadSizeLine(src, eof, <<>>)

\* read_carriage_return then read_line_feed: TRUE iff both succeed
CrLfOk(src) == Len(src) >= 2 /\ src[1] = "CR" /\ src[2] = "LF"
\* the bytes the two calls consume: the second is not made when the first fails
CrLfUsed(src) == IF src # <<>> /\ src[1] = "CR" THEN Min(2, Len(src)) ELSE Min(1, Len(src))

\* Decoder::read(buf) with buf.len() = buflen; rem is remaining_chunks_size.
\* res: "ok" (data holds the bytes, <<>> is Ok(0)), "wouldblock", "invalid"
\* size is the chunk size in force: remaining_chunks_size, or what
\* read_chunk_size has just read
DecoderReadChunk(size, eof, rem, buflen) ==
        IF size.res # "ok" THEN [res |-> size.res, data |-> <<>>, src |-> size.src, rem |-> rem]
        ELSE IF ~IsSome(rem) /\ size.val = 0 THEN
            \* chunk size 0: end of the body
            IF CrLfOk(size.src) THEN [res |-> "ok", data |-> <<>>, src |-> Drop(size.src, 2), rem |-> rem]
            ELSE [res |-> "invalid", data |-> <<>>, src |-> Drop(size.src, CrLfUsed(size.src)), rem |-> rem]
        ELSE LET s == size.src
                 n == Min(Min(buflen, size.val), Len(s))
             IN  \* self.source.read(buf)?  remaining_chunks_size is not yet assigned
                 IF s = <<>> /\ ~eof THEN [res |-> "wouldblock", data |-> <<>>, src |-> s, rem |-> rem]
                 ELSE IF buflen >= size.val /\ n = size.val THEN
                     \* the chunk is complete: its CRLF is read before the state is updated
                     IF CrLfOk(Drop(s, n)) THEN [res |-> "ok", data |-> Take(s, n), src |-> Drop(s, n + 2), rem |-> None]
                     ELSE [res |-> "invalid", data |-> <<>>, src |-> Drop(s, n + CrLfUsed(Drop(s, n))), rem |-> rem]
                 ELSE [res |-> "ok", data |-> Take(s, n), src |-> Drop(s, n), rem |-> Some(size.val - n)]

DecoderRead(src, eof, rem, buflen) ==
    DecoderReadChunk(IF IsSome(rem) THEN [res |-> "ok", val |-> Unwrap(rem), src |-> src]
                     ELSE read_chunk_size(src, eof),
                     eof, rem, buflen)

\* the read loop of RecvBody for RecvBody::Chunked
\* r is the result of one recv.read(&mut data[bytes_read..])
RECURSIVE ChunkedReadLoop(_, _, _, _)
RECURSIVE ChunkedReadResult(_, _, _)
ChunkedReadResult(r, eof, data) ==
    IF r.res = "invalid" THEN [err |-> TRUE, closed |-> FALSE, data |-> data, src |-> r.src, rem |-> r.rem]
    ELSE IF r.res = "wouldblock" THEN [err |-> FALSE, closed |-> FALSE, data |-> data, src |-> r.src, rem |-> r.rem]
    ELSE IF r.data = <<>> THEN [err |-> FALSE, closed |-> TRUE, data |-> data, src |-> r.src, rem |-> r.rem]
    ELSE ChunkedReadLoop(r.src, eof, r.rem, data \o r.data)

ChunkedReadLoop(src, eof, rem, data) ==
    ChunkedReadResult(DecoderRead(src, eof, rem, ReadChunk), eof, data)

\* the read loop of RecvBody for RecvBody::Plain: everything readable is read
PlainReadLoop(src, eof) ==
    [err |-> FALSE, closed |-> eof, data |-> src, src |-> <<>>, rem |-> None]

----------------------------------------------------------------------------
(* DnsClient (src/src/dns.rs) *)

\* a DNS answer datagram: [id, rcode, answers, parses], answers a sequence of
\* [rtype, addr, ttl]; parses tells whether dns_parser::Packet::parse accepts
\* the datagram
Outcome(kind, addr, ttl) == [kind |-> kind, addr |-> addr, ttl |-> ttl]

\* parse_answer: the first A record
RECURSIVE parse_answer(_)
parse_answer(answers) ==
    IF answers = <<>> THEN None
    ELSE IF answers[1].rtype = "A" THEN Some(answers[1])
    ELSE parse_answer(Tail(answers))

\* DnsResponse::parse_from_packet
parse_from_packet_all_errors(pkt) ==
    [id |-> pkt.id,
     outcome |-> IF pkt.rcode = "NoError" /\ IsSome(parse_answer(pkt.answers))
                 THEN Outcome("Known", Unwrap(parse_answer(pkt.answers)).addr,
                              Unwrap(parse_answer(pkt.answers)).ttl)
                 ELSE Outcome("Error", 0, 0)]
parse_from_packet(pkt) ==
    [id |-> pkt.id,
     outcome |-> IF pkt.rcode = "NoError" THEN
                     LET a == parse_answer(pkt.answers) IN
                     IF IsSome(a) THEN Outcome("Known", Unwrap(a).addr, Unwrap(a).ttl)
                     ELSE Outcome("Error", 0, 0)
                 ELSE IF pkt.rcode = "NameError" THEN Outcome("Unknown", 0, 0)
                 ELSE Outcome("Error", 0, 0)]

\* Vec::swap_remove, 1-based
SwapRemove(s, i) ==
    IF i = Len(s) THEN Take(s, Len(s) - 1)
    ELSE [Take(s, Len(s) - 1) EXCEPT ![i] = s[Len(s)]]

\* Iterator::position, 1-based, 0 for None
RECURSIVE PositionFrom(_, _, _)
PositionFrom(reqs, id, i) ==
    IF i > Len(reqs) THEN 0
    ELSE IF reqs[i].id = id THEN i
    ELSE PositionFrom(reqs, id, i + 1)
Position(reqs, id) == PositionFrom(reqs, id, 1)

\* register_all on a new socket and reregister_all on the one held: the
\* poller will deliver a writable event for the socket
registered(d) == ~d.socket \/ d.write_outdated

\* DnsClient::resolve; the result is the new DnsClient, the id is d.next_id
resolve_noqueue(d, host, timeout) ==
    [d EXCEPT !.socket = TRUE, !.write_outdated = FALSE, !.edge = (registered(d) \/ d.edge),
              !.next_id = (d.next_id + 1) % 65536]
resolve(d, host, timeout) ==
    [d EXCEPT !.socket = TRUE,
              !.write_outdated = FALSE,
              !.edge = (registered(d) \/ d.edge),
              !.next_id = (d.next_id + 1) % 65536,
              !.requests = Append(d.requests,
                    [id |-> d.next_id, state |-> "Pending", host |-> host,
                     time_created |-> now, timeout |-> timeout])]

\* DnsClient::pump, the loop that times queries out
RECURSIVE DnsTimeouts(_, _, _)
DnsTimeouts(reqs, index, resps) ==
    IF index > Len(reqs) THEN [requests |-> reqs, resps |-> resps]
    ELSE IF is_elapsed(reqs[index].time_created, reqs[index].timeout)
         THEN DnsTimeouts(SwapRemove(reqs, index), index,
                          Append(resps, [id |-> reqs[index].id, outcome |-> Outcome("TimedOut", 0, 0)]))
         ELSE DnsTimeouts(reqs, index + 1, resps)

\* DnsClient::pump, a writable event: every Pending query is sent
\* D is [dns, inq, wire, resps, queries, st]
RECURSIVE DnsSendPending_resend(_, _)
DnsSendPending_resend(D, i) ==
    IF i > Len(D.dns.requests) THEN D
    ELSE LET req == D.dns.requests[i] IN
         DnsSendPending_resend(
                [D EXCEPT !.dns.write_outdated = FALSE,
                          !.wire = D.wire \cup {[id |-> req.id, host |-> req.host]},
                          !.queries[req.host] = D.queries[req.host] + 1], i + 1)
RECURSIVE DnsSendPending(_, _)
DnsSendPending(D, i) ==
    IF i > Len(D.dns.requests) THEN D
    ELSE LET req == D.dns.requests[i] IN
         IF req.state = "Pending"
         THEN DnsSendPending(
                [D EXCEPT !.dns.requests[i].state = "Sent",
                          !.dns.write_outdated = FALSE,
                          !.wire = D.wire \cup {[id |-> req.id, host |-> req.host]},
                          !.queries[req.host] = D.queries[req.host] + 1], i + 1)
         ELSE DnsSendPending(D, i + 1)

\* dns_parser::Packet::parse(buff).unwrap() in parse_from_packet
unwrap(pkt) == pkt.parses

\* DnsClient::pump, a readable event: the socket is drained
\* D is [dns, inq, wire, resps, queries, st]
RECURSIVE DnsRecvLoop(_)
DnsRecvLoop(D) ==
    IF D.inq = <<>> THEN D
    ELSE IF ~unwrap(Head(D.inq)) THEN [D EXCEPT !.inq = Tail(D.inq), !.st = "panic"]
    ELSE LET resp == parse_from_packet(Head(D.inq))
             idx == Position(D.dns.requests, resp.id)
         IN  IF idx = 0 THEN DnsRecvLoop([D EXCEPT !.inq = Tail(D.inq)])
             ELSE LET left == SwapRemove(D.dns.requests, idx) IN
                  IF left = <<>>
                  THEN \* the socket is deregistered and dropped, and what was
                       \* queued on it or is still on its way is lost
                       [D EXCEPT !.dns.requests = left, !.dns.socket = FALSE,
                                 !.dns.edge = FALSE,
                                 !.resps = Append(D.resps, resp), !.inq = <<>>, !.wire = {}]
                  ELSE DnsRecvLoop([D EXCEPT !.dns.requests = left,
                                             !.resps = Append(D.resps, resp),
                                             !.inq = Tail(D.inq)])

DnsEvent_any_token(D, event) ==
    IF D.dns.socket
    THEN LET W == IF event.writable
                  THEN DnsSendPending([D EXCEPT !.dns.write_outdated = TRUE], 1)
                  ELSE D
         IN  IF event.readable THEN DnsRecvLoop(W) ELSE W
    ELSE D
DnsEvent(D, event) ==
    IF event.token = D.dns.token /\ D.dns.socket
    THEN LET W == IF event.writable
                  THEN DnsSendPending([D EXCEPT !.dns.write_outdated = TRUE], 1)
                  ELSE D
         IN  IF event.readable THEN DnsRecvLoop(W) ELSE W
    ELSE D

RECURSIVE DnsEvents(_, _, _)
DnsEvents(D, events, k) ==
    IF k > Len(events) \/ D.st # "ok" THEN D
    ELSE DnsEvents(DnsEvent(D, events[k]), events, k + 1)

\* the events hold a writable event of the socket registered with token
HasWritable(events, token) ==
    \E k \in 1 .. Len(events) : events[k].token = token /\ events[k].writable

\* DnsClient::pump; a writable event the poll has delivered is not delivered
\* again for the same registration
DnsPump(events) ==
    LET t == DnsTimeouts(dns.requests, 1, <<>>)
    IN  DnsEvents([dns |-> [dns EXCEPT !.requests = t.requests,
                                       !.edge = (@ /\ ~HasWritable(events, dns.token))],
                   inq |-> dnsIn,
                   wire |-> dnsWire, resps |-> t.resps, queries |-> queries, st |-> "ok"],
                  events, 1)

----------------------------------------------------------------------------
(* Client (src/src/client.rs) *)

\* Response { id, state }: data are the bytes of Data, head the fields of Head
NoHead == [content_length |-> 0, transfer_chunked |-> FALSE]
Response_first_ticket(id, kind, data) == [id |-> 0, kind |-> kind, data |-> data, head |-> NoHead]
Response(id, kind, data) == [id |-> id, kind |-> kind, data |-> data, head |-> NoHead]
HeadResponse(id, content_length, transfer_chunked) ==
    [id |-> id, kind |-> "Head", data |-> <<>>,
     head |-> [content_length |-> content_length, transfer_chunked |-> transfer_chunked]]

\* InternalReq, with the fields of every InternalReqState variant
InternalReq(id, token, timeout, state, host, dns_id) ==
    [id |-> id, token |-> token, time_created |-> now, timeout |-> timeout,
     state |-> state, host |-> host, dns_id |-> dns_id,
     buffer |-> <<>>, chunked |-> FALSE, rem |-> None,
     bytes_read_total |-> 0, content_length |-> 0,
     body |-> RequestLen]

\* InternalReqState::connection_mut(..).is_some()
HasConnection(r) == r.state \in {"Sending", "RecvHead", "RecvBody"}

\* InternalReq::is_finished
is_finished(r) == r.state \in {"Done", "Error"}

\* Connection::new followed by register_all(io, &mut connection, token)
Connect(c, token) == [c EXCEPT !.stage = "connecting", !.reg = Some(token)]

\* InternalReq::deregister
deregister(M, r) ==
    IF HasConnection(r) THEN [M EXCEPT !.conns[r.id].reg = None] ELSE M

\* InternalReq::finish_done / finish_error: the old state is dropped, and the
\* connection with it
finish(M, i, state) ==
    LET r == M.reqs[i] IN
    [M EXCEPT !.reqs[i].state = state, !.reqs[i].buffer = <<>>, !.reqs[i].rem = None,
              !.conns[r.id] = IF HasConnection(r)
                               THEN [@ EXCEPT !.stage = "dropped", !.inbuf = <<>>, !.rest = <<>>, !.eof = FALSE]
                               ELSE @,
              !.skip = TRUE]

push_front(M, resp) == [M EXCEPT !.resps = <<resp>> \o M.resps]
push(M, resp) == [M EXCEPT !.resps = Append(M.resps, resp)]

\* pump, a record in Resolving: the answers of this call are searched for its id
RECURSIVE FirstResp(_, _, _)
FirstResp(resps, dns_id, j) ==
    IF j > Len(resps) THEN 0
    ELSE IF resps[j].id = dns_id THEN j
    ELSE FirstResp(resps, dns_id, j + 1)

ResolvingStep(M, i, dns_resps) ==
    LET r == M.reqs[i]
        j == FirstResp(dns_resps, r.dns_id, 1)
    IN  IF j = 0 THEN M
        ELSE LET o == dns_resps[j].outcome IN
             CASE o.kind = "Unknown" -> finish(push(M, Response(r.id, "UnknownHost", <<>>)), i, "Error")
               [] o.kind = "Error" -> finish(push(M, Response(r.id, "Error", <<>>)), i, "Error")
               [] o.kind = "TimedOut" -> finish(push(M, Response(r.id, "TimedOut", <<>>)), i, "Error")
               [] o.kind = "Known" ->
                    \* the state is replaced by Unspecified and the address is
                    \* cached before Connection::new(addr, mode)? is tried
                    IF M.os
                    THEN [M EXCEPT !.cache[r.host] = Some([ip_addr |-> o.addr, time_created |-> now, ttl |-> o.ttl]),
                                   !.conns[r.id] = Connect(@, r.token),
                                   !.reqs[i].state = "Sending",
                                   !.skip = TRUE]
                    ELSE [M EXCEPT !.cache[r.host] = Some([ip_addr |-> o.addr, time_created |-> now, ttl |-> o.ttl]),
                                   !.reqs[i].state = "Unspecified",
                                   !.st = "err"]

\* Connection::write(&body): the number of bytes the socket takes, 0 for an
\* Err that would block
write(body, room) == IF body <= room THEN body ELSE room

\* Connection::complete_io, its result: wb tells whether the session's
\* complete_io would block in this call; a Plain connection has no session
complete_io_propagates(c, wb) == IF c.secure /\ wb THEN "wouldblock" ELSE "ok"
complete_io(c, wb) == "ok"

\* Connection::complete_io, the connection it leaves: a TLS handshake that
\* does not block completes
pumped(c, wb) ==
    IF c.secure /\ c.stage = "handshaking" /\ ~wb THEN [c EXCEPT !.stage = "open"] ELSE c

\* pump, a record in Sending and an event with its token
SendingStep(M, i) ==
    LET r == M.reqs[i] IN
    IF M.conns[r.id].stage = "connecting"
    THEN [M EXCEPT !.skip = TRUE]             \* peer_addr: NotConnected
    ELSE IF M.conns[r.id].stage = "handshaking" \/ write(r.body, M.room) = 0
    THEN [M EXCEPT !.skip = TRUE]             \* write: WouldBlock
    ELSE [M EXCEPT !.conns[r.id].sent = @ + write(r.body, M.room),
                   !.reqs[i].state = "RecvHead", !.reqs[i].buffer = <<>>,
                   !.reqs[i].body = 0]

\* the read loop of RecvHead: connection.read(&mut buffer[bytes_read..]) with
\* bytes_read starting at buffer.len()
read_fresh(buffer, inbuf) == inbuf
read(buffer, inbuf) == buffer \o inbuf

\* pump, a record in RecvHead and a readable event with its token
RecvHeadStep(M, i) ==
    LET r == M.reqs[i]
        c == M.conns[r.id]
        buffer == read(r.buffer, c.inbuf)
        closed == c.eof
        status == head_parse(buffer)
        R == [M EXCEPT !.conns[r.id].inbuf = <<>>, !.reqs[i].buffer = buffer]
    IN  IF status < 0 THEN finish(push(R, Response(r.id, "Error", <<>>)), i, "Error")
        ELSE IF status > 0 THEN
            LET content_length == FindContentLength(buffer, 2, status - 1)
                transfer_chunked == HasChunkedHeader(buffer, status - 1)
            IN  IF content_length < 0 THEN [R EXCEPT !.st = "panic"]
                ELSE
                [push(R, HeadResponse(r.id, content_length, transfer_chunked))
                    EXCEPT !.reqs[i].state = "RecvBody",
                           !.reqs[i].buffer = Drop(buffer, status),
                           !.reqs[i].chunked = transfer_chunked,
                           !.reqs[i].rem = None,
                           !.reqs[i].bytes_read_total = 0,
                           !.reqs[i].content_length = content_length]
        ELSE IF closed THEN finish(push(R, Response(r.id, "Error", <<>>)), i, "Error")
        ELSE R

\* the terminal event of a body the peer closed before it was complete
closed_early == "Error"

\* the completion test of RecvBody
BodyComplete_on_close(chunked, closed, total, content_length) == closed
BodyComplete(chunked, closed, total, content_length) ==
    \/ chunked /\ closed
    \/ ~chunked /\ total >= content_length

\* pump, a record in RecvBody after its read loop has ended with loop
RecvBodyResult(M, i, loop) ==
    LET r == M.reqs[i]
        c == M.conns[r.id]
        \* what is left of the cursor and of the socket's queue
        fromSocket == Min(Len(loop.src), Len(c.inbuf))
        R == [M EXCEPT !.reqs[i].buffer = Take(loop.src, Len(loop.src) - fromSocket),
                       !.reqs[i].rem = loop.rem,
                       !.conns[r.id].inbuf = Drop(loop.src, Len(loop.src) - fromSocket)]
        total == r.bytes_read_total + Len(loop.data)
        D == IF loop.data # <<>>
             THEN [push(R, Response(r.id, "Data", loop.data)) EXCEPT !.reqs[i].bytes_read_total = total]
             ELSE R
    IN  IF loop.err THEN [R EXCEPT !.st = "err"]
        ELSE IF BodyComplete(r.chunked, loop.closed, total, r.content_length)
             THEN finish(deregister(push(D, Response(r.id, "Done", <<>>)), r), i, "Done")
        ELSE IF loop.closed
             THEN finish(push(D, Response(r.id, closed_early, <<>>)), i, "Error")
        ELSE D

\* pump, a record in RecvBody and an event with its token
RecvBodyStep(M, i) ==
    LET r == M.reqs[i]
        c == M.conns[r.id]
    IN  RecvBodyResult(M, i, IF r.chunked THEN ChunkedReadLoop(r.buffer \o c.inbuf, c.eof, r.rem, <<>>)
                             ELSE PlainReadLoop(r.buffer \o c.inbuf, c.eof))

\* pump, the RecvBody block, which follows the RecvHead block in the same arm
RecvBodyBlock(H, i) ==
    IF ~H.skip /\ H.reqs[i].state = "RecvBody" THEN RecvBodyStep(H, i) ELSE H

\* pump, one event for record i
ReqEvent_no_fall_through(M, i, event, dns_resps) ==
    LET r == M.reqs[i] IN
    CASE r.state = "Resolving" -> ResolvingStep(M, i, dns_resps)
      [] r.state = "Sending" ->
            IF event.token = r.token THEN SendingStep(M, i) ELSE M
      [] r.state = "RecvHead" ->
            IF event.token = r.token /\ event.readable THEN RecvHeadStep(M, i) ELSE M
      [] r.state = "RecvBody" ->
            IF event.token = r.token THEN RecvBodyStep(M, i) ELSE M
      [] OTHER -> [M EXCEPT !.st = "panic"]
ReqEvent(M, i, event, dns_resps) ==
    LET r == M.reqs[i] IN
    CASE r.state = "Resolving" -> ResolvingStep(M, i, dns_resps)
      [] r.state = "Sending" ->
            IF event.token = r.token THEN SendingStep(M, i) ELSE M
      [] r.state \in {"RecvHead", "RecvBody"} ->
            IF event.token = r.token
            THEN RecvBodyBlock(IF event.readable /\ r.state = "RecvHead" THEN RecvHeadStep(M, i) ELSE M, i)
            ELSE M
      [] OTHER -> [M EXCEPT !.st = "panic"]   \* todo!()

\* pump, the loop over the events for record i
RECURSIVE ReqEvents(_, _, _, _, _)
ReqEvents(M, i, events, dns_resps, k) ==
    IF k > Len(events) \/ M.skip \/ M.st # "ok" THEN M
    ELSE ReqEvents(ReqEvent(M, i, events[k], dns_resps), i, events, dns_resps, k + 1)

\* pump, record i
PumpReq_no_deadline(M, i, events, dns_resps) ==
    ReqEvents([M EXCEPT !.skip = FALSE], i, events, dns_resps, 1)
PumpReq(M, i, events, dns_resps) ==
    LET r == M.reqs[i] IN
    IF DeadlineElapsed(r)
    THEN finish(deregister(push(M, Response(r.id, "TimedOut", <<>>)), r), i, "Error")
    ELSE IF HasConnection(r) /\ complete_io(M.conns[r.id], M.wb) # "ok"
    THEN [M EXCEPT !.st = "err"]             \* connection.complete_io()?
    ELSE ReqEvents([M EXCEPT !.skip = FALSE,
                             !.conns[r.id] = IF HasConnection(r) THEN pumped(@, M.wb) ELSE @],
                   i, events, dns_resps, 1)

\* pump, the loop 'rq over the records
RECURSIVE PumpReqs(_, _, _, _)
PumpReqs(M, i, events, dns_resps) ==
    IF i > Len(M.reqs) \/ M.st # "ok" THEN M
    ELSE PumpReqs(PumpReq(M, i, events, dns_resps), i + 1, events, dns_resps)

\* Vec::retain(|request| !request.is_finished())
retain_all(reqs) == reqs
RECURSIVE retain(_)
retain(reqs) ==
    IF reqs = <<>> THEN <<>>
    ELSE IF is_finished(reqs[1]) THEN retain(Tail(reqs))
    ELSE <<reqs[1]>> \o retain(Tail(reqs))

\* Client::timeout, one record with a timeout:
\* timeout.checked_sub(now - request.time_created).unwrap_or(Duration::ZERO)
checked_sub_unclamped(timeout, d) == timeout - d
checked_sub_or_zero(timeout, d) == IF timeout >= d THEN timeout - d ELSE 0

\* Client::timeout, filter_map(..).min() over the records from index i on;
\* acc is the minimum so far
RECURSIVE min_timeout(_, _, _)
min_timeout(reqs, i, acc) ==
    IF i > Len(reqs) THEN acc
    ELSE IF IsSome(reqs[i].timeout)
         THEN LET left == checked_sub_or_zero(Unwrap(reqs[i].timeout), Elapsed(reqs[i].time_created))
              IN  min_timeout(reqs, i + 1, IF IsSome(acc) THEN Some(Min(Unwrap(acc), left)) ELSE Some(left))
         ELSE min_timeout(reqs, i + 1, acc)

\* Client::timeout, called in this state
ClientTimeout == min_timeout(requests, 1, None)

----------------------------------------------------------------------------
(* Request (src/src/http.rs) *)

Header(name, value) == [name |-> name, value |-> value]

\* Request::format, the loop over self.headers: out is the text of the
\* headers so far, a sequence of lines
RECURSIVE format_headers(_, _, _)
format_headers(headers, k, acc) ==
    IF k > Len(headers) \/ acc.panic THEN acc
    ELSE LET name == headers[k].name IN
         IF name = "Connection" \/ name = "Content-Length"
         THEN [acc EXCEPT !.panic = TRUE]
         ELSE format_headers(headers, k + 1,
                [acc EXCEPT !.overwrite_encoding = (acc.overwrite_encoding \/ name = "Accept-Encoding"),
                            !.out = Append(acc.out, headers[k])])

Query(name, value) == [name |-> name, value |-> value]

\* str::trim_start_matches("/")
RECURSIVE trim_start_matches(_)
trim_start_matches(path) ==
    IF path # <<>> /\ Head(path) = "/" THEN trim_start_matches(Tail(path)) ELSE path

\* Request::format, the loop over self.queries that builds path_builder
RECURSIVE path_with_queries(_, _, _)
path_with_queries(qs, idx, path_builder) ==
    IF idx > Len(qs) THEN path_builder
    ELSE path_with_queries(qs, idx + 1,
            path_builder \o <<IF idx = 1 THEN "?" ELSE "&", qs[idx].name, "=", qs[idx].value>>)

\* Request::format, the request target of "{} /{} HTTP/1.1": path_builder is
\* built and the target is written from trimmed_path
request_target(path, qs) ==
    LET trimmed_path == trim_start_matches(path)
        path_builder == path_with_queries(qs, 1, trimmed_path)
    IN  <<"/">> \o trimmed_path

\* Request::format: the header lines that follow the Host line
format(headers, body_len) ==
    LET acc == format_headers(headers, 1,
                    [out |-> <<Header("Content-Length", body_len), Header("Connection", "close")>>,
                     overwrite_encoding |-> FALSE, panic |-> FALSE])
    IN  [panic |-> acc.panic,
         out |-> IF acc.overwrite_encoding
                 THEN Append(acc.out, Header("Accept-Encoding", "identity"))
                 ELSE acc.out]

----------------------------------------------------------------------------
(* Traverse (src/src/traverse.rs) *)

\* a directory is the sequence of its entries in the order read_dir gives
\* them; the path of an entry is the path of its directory and its place
File == [kind |-> "file", items |-> <<>>]
Dir(items) == [kind |-> "dir", items |-> items]

\* item.file_type()?.is_file()
is_any(item) == TRUE
is_file(item) == item.kind = "file"

\* the caller's closure, which fails on the paths in bad; T is the traversal
\* so far: the paths the closure was called with, and the error in flight
func(T, path, bad) == [T EXCEPT !.calls = Append(T.calls, path), !.err = (path \in bad)]

\* the closure of scan_files and scan_files_skip:
\* if item.file_type()?.is_file() { apply(item)? } Ok(())
apply_if_file(T, item, path, bad) == IF is_file(item) THEN func(T, path, bad) ELSE T

\* Result::ok(): the error is discarded
ok(T) == [T EXCEPT !.err = FALSE]

\* scan, the loop over the entries from the k-th on; `?` leaves it
RECURSIVE scan(_, _, _, _, _)
scan_after(path, items, k, T, bad) == IF T.err THEN T ELSE scan(path, items, k + 1, T, bad)
scan_dir_entry(path, items, k, T, bad) ==
    IF T.err THEN T
    ELSE scan_after(path, items, k, apply_if_file(T, items[k], path \o <<k>>, bad), bad)
scan(path, items, k, T, bad) ==
    IF k > Len(items) THEN T
    ELSE IF is_file(items[k])
         THEN scan_after(path, items, k, apply_if_file(T, items[k], path \o <<k>>, bad), bad)
         ELSE scan_dir_entry(path, items, k, scan(path \o <<k>>, items[k].items, 1, T, bad), bad)

\* scan_skip: the entries of the directory itself, with scan(..).ok() for a
\* subdirectory
RECURSIVE scan_skip(_, _, _, _, _)
scan_skip(path, items, k, T, bad) ==
    IF k > Len(items) THEN T
    ELSE IF is_file(items[k])
         THEN scan_skip(path, items, k + 1, ok(apply_if_file(T, items[k], path \o <<k>>, bad)), bad)
         ELSE scan_skip(path, items, k + 1,
                        ok(apply_if_file(ok(scan(path \o <<k>>, items[k].items, 1, T, bad)),
                                         items[k], path \o <<k>>, bad)),
                        bad)

NoTraversal == [calls |-> <<>>, err |-> FALSE]

\* Traverse::build: the closure pushes the path and never fails
build(tree) == scan(<<>>, tree, 1, NoTraversal, {})
\* Traverse::apply
apply(tree, bad) == scan(<<>>, tree, 1, NoTraversal, bad)
\* Traverse::apply_skip
apply_skip(tree, bad) == scan_skip(<<>>, tree, 1, NoTraversal, bad)

----------------------------------------------------------------------------
(* The calls of the caller *)

\* request and bytes are the headers given to Request::format and the header
\* lines it produced
\* path and queries are the uri.path and the queries of that Request, line is
\* the request target format wrote into the request line
NoCall == [op |-> "none", status |-> "ok", events |-> <<>>, id |-> 0,
           request |-> <<>>, bytes |-> <<>>,
           path |-> <<>>, queries |-> <<>>, line |-> <<>>,
           input |-> <<>>, results |-> <<>>]
Alive == ret.status # "panic"

\* sent is the number of bytes of the request the connection has taken
\* secure tells a Connection::Secure from a Connection::Plain; its stage is
\* handshaking between the TCP handshake and the end of the TLS handshake
NoConn == [stage |-> "none", inbuf |-> <<>>, rest |-> <<>>, full |-> <<>>, eof |-> FALSE, reg |-> None,
           sent |-> 0, secure |-> FALSE]

LiveTokens == {requests[i].token : i \in 1 .. Len(requests)}

\* Client::send; script is what the peer of this request will send, secure
\* tells whether the request asks for Mode::Secure
SendMode(host, token, timeout, script, secure) ==
    /\ Alive
    /\ next_id \in Tickets
    /\ token \notin LiveTokens
    /\ LET id == next_id
           maybe_cached == dns_cache[host]
           hit == IsSome(maybe_cached) /\ ~is_outdated(Unwrap(maybe_cached))
           peer == [NoConn EXCEPT !.rest = script, !.full = script, !.secure = secure]
       IN  /\ next_id' = next_id + 1
           /\ IF hit
              THEN /\ requests' = Append(requests, InternalReq(id, token, timeout, "Sending", host, 0))
                   /\ conns' = [conns EXCEPT ![id] = Connect(peer, token)]
                   /\ dns' = dns
              ELSE /\ requests' = Append(requests, InternalReq(id, token, timeout, "Resolving", host, dns.next_id))
                   /\ conns' = [conns EXCEPT ![id] = peer]
                   /\ dns' = resolve(dns, host, timeout)
           /\ ret' = [NoCall EXCEPT !.op = "send", !.id = id]
    /\ submits' = [submits EXCEPT ![next_id] =
            [host |-> host, sent |-> TRUE,
             hit |-> IsSome(dns_cache[host]) /\ ~is_outdated(Unwrap(dns_cache[host])),
             overlap |-> \E i \in 1 .. Len(requests) :
                            requests[i].state = "Resolving" /\ requests[i].host = host]]
    /\ UNCHANGED <<now, dns_cache, dnsWire, dnsIn, queries, emitted, failed>>

\* Client::send of a request with Mode::Plain
Send(host, token, timeout, script) == SendMode(host, token, timeout, script, FALSE)

\* the events of one poll: at most one per token, in the order of the tokens
EventFlags == {[readable |-> TRUE, writable |-> FALSE],
               [readable |-> FALSE, writable |-> TRUE],
               [readable |-> TRUE, writable |-> TRUE]}
AllTokens == {DnsToken} \cup Tokens
RECURSIVE EventList(_)
EventList(f) ==
    IF DOMAIN f = {} THEN <<>>
    ELSE LET t == CHOOSE x \in DOMAIN f : \A y \in DOMAIN f : x <= y
         IN  <<[token |-> t, readable |-> f[t].readable, writable |-> f[t].writable]>>
             \o EventList([y \in DOMAIN f \ {t} |-> f[y]])
EventListsWith(tokens, flags) == {EventList(f) : f \in UNION {[S -> flags] : S \in SUBSET tokens}}
EventListsOver(tokens) == EventListsWith(tokens, EventFlags)
EventLists == EventListsOver(AllTokens)

RECURSIVE Record(_, _)
Record(hist, resps) ==
    IF resps = <<>> THEN hist
    ELSE Record([hist EXCEPT ![resps[1].id] = Append(@, resps[1])], Tail(resps))

\* the state a pump call leaves: M is the machine after the loop over the
\* records; after an Err or a panic the responses are dropped and retain
\* has not run
PumpReturn(M) ==
    /\ requests' = IF M.st = "ok" THEN retain(M.reqs) ELSE M.reqs
    /\ conns' = M.conns
    /\ dns_cache' = M.cache
    /\ ret' = [NoCall EXCEPT !.op = "pump", !.status = M.st,
                             !.events = IF M.st = "ok" THEN M.resps ELSE <<>>,
                             !.input = [wb |-> M.wb]]
    /\ emitted' = IF M.st = "ok" THEN Record(emitted, M.resps) ELSE emitted
    /\ failed' = (failed \/ M.st = "err")

\* pump after self.dns.pump(&io, events) has returned D; os tells whether the
\* operating system lets the connections of this call be opened, room how
\* many bytes the send buffer of a socket takes in this call, wb whether
\* complete_io of a TLS session would block in this call
PumpRequests(events, D, os, room, wb) ==
    /\ dns' = D.dns
    /\ dnsIn' = D.inq
    /\ dnsWire' = D.wire
    /\ queries' = D.queries
    /\ PumpReturn(PumpReqs([reqs |-> requests, conns |-> conns, cache |-> dns_cache,
                            resps |-> <<>>, st |-> D.st, skip |-> FALSE, os |-> os,
                            room |-> room, wb |-> wb],
                           1, events, D.resps))

\* Client::pump
PumpOs(events, os) ==
    /\ Alive
    /\ PumpRequests(events, DnsPump(events), os, RequestLen, FALSE)
    /\ UNCHANGED <<now, next_id, submits>>

\* Client::pump while the send buffers have room for room bytes
PumpRoom(events, room) ==
    /\ Alive
    /\ PumpRequests(events, DnsPump(events), TRUE, room, FALSE)
    /\ UNCHANGED <<now, next_id, submits>>

\* Client::pump while complete_io of the TLS sessions blocks or not
PumpTls(events, wb) ==
    /\ Alive
    /\ PumpRequests(events, DnsPump(events), TRUE, RequestLen, wb)
    /\ UNCHANGED <<now, next_id, submits>>

\* Client::pump while the operating system refuses nothing
Pump(events) == PumpOs(events, TRUE)

\* Request::format, as send calls it for the request it is given (the body is
\* empty)
Format ==
    /\ ret.op = "none"
    /\ LET f == format(ret.request, 0) IN
       ret' = [ret EXCEPT !.op = "format", !.status = IF f.panic THEN "panic" ELSE "ok", !.bytes = f.out,
                          !.line = request_target(ret.path, ret.queries)]
    /\ UNCHANGED <<now, requests, next_id, dns_cache, dns, conns, dnsWire, dnsIn, queries, emitted, failed, submits>>

\* SimpleClient::send and SimpleClient::stream, from the call to the end of the
\* request: one request is submitted to the inner Client and takes its ticket
SimpleSend ==
    /\ Alive
    /\ next_id < MaxSimple
    /\ next_id' = next_id + 1
    /\ ret' = [NoCall EXCEPT !.op = "simple_send", !.id = next_id]
    /\ UNCHANGED <<now, requests, dns_cache, dns, conns, dnsWire, dnsIn, queries, emitted, failed, submits>>

\* the events the inner Client returns to many for the request with ticket id
\* whose outcome is kind
many_events_of(id, kind) ==
    IF kind = "Done" THEN <<HeadResponse(id, 0, FALSE), Response(id, "Done", <<>>)>>
    ELSE <<Response(id, kind, <<>>)>>

\* the events of the requests of one many call, in the order in which the
\* requests end; first is the ticket of the first request
RECURSIVE many_events(_, _, _)
many_events(first, input, order) ==
    IF order = <<>> THEN <<>>
    ELSE many_events_of(first + order[1] - 1, input[order[1]]) \o many_events(first, input, Tail(order))

\* SimpleClient::many, one response of the loop over client.pump(..): idx is
\* response.id.inner, and indexing past the end of a Vec panics
many_response(B, response) ==
    LET idx == response.id IN
    IF idx >= B.num_requests THEN [B EXCEPT !.st = "panic"]
    ELSE IF response.kind = "Head"
         THEN IF B.response_builders[idx + 1] = None THEN [B EXCEPT !.st = "panic"]
              ELSE [B EXCEPT !.response_builders[idx + 1] = Some([head |-> TRUE])]
    ELSE IF response.kind = "Data"
         THEN IF B.response_builders[idx + 1] = None THEN [B EXCEPT !.st = "panic"] ELSE B
    ELSE IF response.kind = "Done"
         THEN IF B.response_builders[idx + 1] = None \/ ~Unwrap(B.response_builders[idx + 1]).head
              THEN [B EXCEPT !.st = "panic"]
              ELSE [B EXCEPT !.response_builders[idx + 1] = None,
                             !.responses[idx + 1] = "Ok",
                             !.counter = B.counter + 1]
    ELSE [B EXCEPT !.responses[idx + 1] = response.kind, !.counter = B.counter + 1]

\* SimpleClient::many, the loop 'ev over the responses until counter ==
\* num_requests
RECURSIVE many_loop(_, _, _)
many_loop(B, events, k) ==
    IF k > Len(events) \/ B.st # "ok" \/ B.counter = B.num_requests THEN B
    ELSE many_loop(many_response(B, events[k]), events, k + 1)

\* SimpleClient::many: input gives for every request the way it ends, order the
\* order in which the requests end
Many(input, order) ==
    /\ Alive
    /\ next_id <= MaxSimple
    /\ LET n == Len(input)
           B == many_loop([num_requests |-> n,
                           response_builders |-> [i \in 1 .. n |-> Some([head |-> FALSE])],
                           responses |-> [i \in 1 .. n |-> "Dead"],
                           counter |-> 0, st |-> "ok"],
                          many_events(next_id, input, order), 1)
       IN  /\ next_id' = next_id + n
           /\ ret' = [NoCall EXCEPT !.op = "many", !.status = B.st, !.id = next_id,
                                    !.input = [outcomes |-> input, order |-> order],
                                    !.results = IF B.st = "ok" THEN B.responses ELSE <<>>]
    /\ UNCHANGED <<now, requests, dns_cache, dns, conns, dnsWire, dnsIn, queries, emitted, failed, submits>>

\* the events the inner Client returns for the request with ticket id over
\* its life, in order: shape lists their kinds; every Data event carries one
\* byte, and a body cut short by an Error misses one byte
course_length(shape) ==
    Cardinality({k \in 1 .. Len(shape) : shape[k] = "Data"})
        + (IF shape[Len(shape)] = "Error" THEN 1 ELSE 0)
course_events(id, shape) ==
    [k \in 1 .. Len(shape) |->
        IF shape[k] = "Head" THEN HeadResponse(id, course_length(shape), FALSE)
        ELSE IF shape[k] = "Data" THEN Response(id, "Data", <<"a">>)
        ELSE Response(id, shape[k], <<>>)]

\* one client.pump(..) of the SimpleClient's inner Client, whose records are
\* kept here as [id, rest], rest being the events the record has yet to
\* return: the records are driven in the order of the list and the record at
\* index i returns adv[i] events
RECURSIVE inner_pump(_, _, _)
inner_pump(reqs, adv, i) ==
    IF i > Len(reqs) THEN <<>>
    ELSE SubSeq(reqs[i].rest, 1, adv[i]) \o inner_pump(reqs, adv, i + 1)
inner_retain(reqs, adv) ==
    LET left == [i \in 1 .. Len(reqs) |->
                    [reqs[i] EXCEPT !.rest = SubSeq(@, adv[i] + 1, Len(@))]]
    IN  SelectSeq(left, LAMBDA r : r.rest # <<>>)
Advances(reqs) ==
    {adv \in [1 .. Len(reqs) -> 0 .. 2] : \A i \in 1 .. Len(reqs) : adv[i] <= Len(reqs[i].rest)}

\* SimpleClient::send, the match on one response of client.pump(..)
send_response(S, response) ==
    IF response.kind = "Head" THEN [S EXCEPT !.response_head = Some(response.head)]
    ELSE IF response.kind = "Data" THEN [S EXCEPT !.result = @ \o response.data]
    ELSE IF response.kind = "Done" THEN [S EXCEPT !.st = "break"]
    ELSE [S EXCEPT !.st = response.kind]

\* SimpleClient::send, the loop over the responses of one pump call
RECURSIVE send_loop(_, _, _)
send_loop(S, events, k) ==
    IF k > Len(events) \/ S.st # "running" THEN S
    ELSE send_loop(send_response(S, events[k]), events, k + 1)

\* SimpleClient::send, what the call returns once the loop 'ev has been left
send_return(S) ==
    IF S.st = "running" THEN [status |-> "running", results |-> [response_head |-> S.response_head, result |-> S.result]]
    ELSE IF S.st = "break"
         THEN IF S.response_head = None THEN [status |-> "panic", results |-> <<>>]
              ELSE [status |-> "ok", results |-> [head |-> Unwrap(S.response_head), body |-> S.result]]
    ELSE [status |-> "err", results |-> S.st]

\* SimpleClient::stream, the match on one response of client.pump(..)
stream_response(S, response) ==
    IF response.kind = "Head" THEN [S EXCEPT !.response_head = Some(response.head), !.stop = TRUE]
    ELSE IF response.kind = "Data" THEN [S EXCEPT !.response_data_buffer = @ \o response.data]
    ELSE IF response.kind = "Done" THEN [S EXCEPT !.is_done = TRUE, !.stop = TRUE]
    ELSE [S EXCEPT !.st = response.kind]

\* SimpleClient::stream, the loop over the responses of one pump call
RECURSIVE stream_loop(_, _, _)
stream_loop(S, events, k) ==
    IF k > Len(events) \/ S.st # "running" THEN S
    ELSE stream_loop(stream_response(S, events[k]), events, k + 1)

\* SimpleClient::stream, what the call returns after the responses of one
\* pump call
stream_return(S) ==
    IF S.st # "running" THEN [status |-> "err", results |-> S.st]
    ELSE IF ~S.stop THEN [status |-> "running", results |-> [S EXCEPT !.stop = FALSE]]
    ELSE IF S.response_head = None THEN [status |-> "panic", results |-> <<>>]
    ELSE [status |-> "ok", results |-> [head |-> Unwrap(S.response_head),
                                        storage |-> S.response_data_buffer,
                                        is_done |-> S.is_done]]

\* no call of the SimpleClient is blocked in its loop 'ev
Idle == Alive /\ ret.status # "running"

\* SimpleClient::send up to its first poll: the request takes the ticket
\* next_id and is handed to the inner Client; shape is the course the
\* request will take
SendCall(shape) ==
    /\ Idle
    /\ next_id < MaxSimple
    /\ next_id' = next_id + 1
    /\ requests' = Append(requests, [id |-> next_id, rest |-> course_events(next_id, shape)])
    /\ ret' = [NoCall EXCEPT !.op = "send", !.status = "running", !.id = next_id,
                             !.input = [shape |-> shape, alone |-> requests = <<>>],
                             !.results = [response_head |-> None, result |-> <<>>]]
    /\ UNCHANGED <<now, dns_cache, dns, conns, dnsWire, dnsIn, queries, emitted, failed, submits>>

\* SimpleClient::send, one turn of the loop 'ev: poll, pump, and the
\* responses of the pump
SendPoll(adv) ==
    /\ ret.op = "send" /\ ret.status = "running"
    /\ LET events == inner_pump(requests, adv, 1)
           S == send_loop([response_head |-> ret.results.response_head,
                           result |-> ret.results.result, st |-> "running"], events, 1)
           R == send_return(S)
       IN  /\ requests' = inner_retain(requests, adv)
           /\ ret' = [ret EXCEPT !.status = R.status, !.results = R.results, !.events = events]
    /\ UNCHANGED <<now, next_id, dns_cache, dns, conns, dnsWire, dnsIn, queries, emitted, failed, submits>>

\* SimpleClient::stream up to its first poll
StreamCall(shape) ==
    /\ Idle
    /\ next_id < MaxSimple
    /\ next_id' = next_id + 1
    /\ requests' = Append(requests, [id |-> next_id, rest |-> course_events(next_id, shape)])
    /\ ret' = [NoCall EXCEPT !.op = "stream", !.status = "running", !.id = next_id,
                             !.input = [shape |-> shape, alone |-> requests = <<>>],
                             !.results = [response_head |-> None, response_data_buffer |-> <<>>,
                                          is_done |-> FALSE, stop |-> FALSE, st |-> "running"]]
    /\ UNCHANGED <<now, dns_cache, dns, conns, dnsWire, dnsIn, queries, emitted, failed, submits>>

\* SimpleClient::stream, one turn of the loop 'ev; once the call has
\* returned, the BodyReader it gave out may be dropped with the request
\* still in flight in the inner Client
StreamPoll(adv) ==
    /\ ret.op = "stream" /\ ret.status = "running"
    /\ LET events == inner_pump(requests, adv, 1)
           R == stream_return(stream_loop(ret.results, events, 1))
       IN  /\ requests' = inner_retain(requests, adv)
           /\ ret' = [ret EXCEPT !.status = R.status, !.results = R.results, !.events = events]
    /\ UNCHANGED <<now, next_id, dns_cache, dns, conns, dnsWire, dnsIn, queries, emitted, failed, submits>>

\* Traverse::build, Traverse::apply and Traverse::apply_skip on the tree and
\* with the closure of ret.input
Traversed(op, T) ==
    /\ ret.op = "none"
    /\ ret' = [ret EXCEPT !.op = op, !.status = IF T.err THEN "err" ELSE "ok", !.results = T.calls]
    /\ UNCHANGED <<now, requests, next_id, dns_cache, dns, conns, dnsWire, dnsIn, queries, emitted, failed, submits>>

Build == ret.input.bad = {} /\ Traversed("build", build(ret.input.tree))
Apply == Traversed("apply", apply(ret.input.tree, ret.input.bad))
ApplySkip == Traversed("apply_skip", apply_skip(ret.input.tree, ret.input.bad))

\* run(future, timeout) (src/src/lib.rs), called at time 0.  ret.input holds the
\* duration given and whether the pointer the waker keeps to a local of
\* waker::new still reads the sender (intact); ret.results holds the variable
\* timeout, the time at which recv_timeout began and whether the future is
\* ready.  ret.status is "polling" before pinned.poll, "waiting" in
\* recv_timeout, "some" and "none" after the return
Running(status) == ret.op = "run" /\ ret.status = status

RunStep(status, R) ==
    /\ ret' = [ret EXCEPT !.status = status, !.results = R]
    /\ UNCHANGED <<now, requests, next_id, dns_cache, dns, conns, dnsWire, dnsIn, queries, emitted, failed, submits>>

\* timeout - (Instant::now() - start); below zero the subtraction of
\* Durations panics
sub_elapsed(timeout, start) == timeout - (now - start)

\* pinned.as_mut().poll(&mut context): Ready returns Some(result) and drops
\* the waker, Pending goes on to waiter.recv_timeout(timeout)
RunPoll ==
    /\ Running("polling")
    /\ IF ret.results.ready
       THEN RunStep(IF ret.input.intact THEN "some" ELSE "crash", ret.results)
       ELSE RunStep("waiting", [ret.results EXCEPT !.wait_from = now])

\* a wake-up arrives while run waits: wake_by_ref sends through the pointer,
\* recv_timeout returns Ok(()) and timeout -= Instant::now() - start; the
\* future is ready by now or is not
RunWake(ready) ==
    /\ Running("waiting")
    /\ now - ret.results.wait_from < ret.results.timeout
    /\ LET left == sub_elapsed(ret.results.timeout, 0) IN
       IF ~ret.input.intact THEN RunStep("crash", ret.results)
       ELSE IF left < 0 THEN RunStep("panic", ret.results)
       ELSE RunStep("polling", [ret.results EXCEPT !.timeout = left, !.ready = ready])

\* recv_timeout returns Err(Timeout): run returns None and drops the waker
RunRecvTimeout ==
    /\ Running("waiting")
    /\ now - ret.results.wait_from >= ret.results.timeout
    /\ RunStep(IF ret.input.intact THEN "none" ELSE "crash", ret.results)

\* time passes while run waits
RunElapse ==
    /\ Running("waiting")
    /\ now - ret.results.wait_from < ret.results.timeout
    /\ now' = now + 1
    /\ UNCHANGED <<requests, next_id, dns_cache, dns, conns, dnsWire, dnsIn, queries, emitted, failed, submits, ret>>

\* Client::send when the operating system refuses the socket it needs: the
\* connection to a cached address, the resolver's socket when there is none,
\* or its registration when it has to be renewed.  The ticket is taken before
\* the failing step and no record is made
SendFails(host) ==
    /\ Alive
    /\ next_id \in Tickets
    /\ \/ IsSome(dns_cache[host]) /\ ~is_outdated(Unwrap(dns_cache[host]))
       \/ ~dns.socket
       \/ dns.write_outdated
    /\ next_id' = next_id + 1
    /\ ret' = [NoCall EXCEPT !.op = "send", !.status = "err"]
    /\ failed' = TRUE
    /\ UNCHANGED <<now, requests, dns_cache, dns, conns, dnsWire, dnsIn, queries, emitted, submits>>

----------------------------------------------------------------------------
(* The environment *)

\* time passes.  The program sees the clock only through elapsed(): a tick is
\* taken while a live request or a pending query has a deadline, or a cache
\* entry is still fresh
Observed ==
    \/ \E i \in 1 .. Len(requests) : IsSome(requests[i].timeout)
    \/ \E i \in 1 .. Len(dns.requests) : IsSome(dns.requests[i].timeout)
    \/ \E h \in Hosts : IsSome(dns_cache[h]) /\ ~is_outdated(Unwrap(dns_cache[h]))

Tick ==
    /\ Alive
    /\ now < MaxTime
    /\ Observed
    /\ now' = now + 1
    /\ ret' = NoCall
    /\ UNCHANGED <<requests, next_id, dns_cache, dns, conns, dnsWire, dnsIn, queries, emitted, failed, submits>>

\* the TCP handshake of a connection completes
TcpConnect(t) ==
    /\ Alive
    /\ conns[t].stage = "connecting"
    /\ conns' = [conns EXCEPT ![t].stage = IF conns[t].secure THEN "handshaking" ELSE "open"]
    /\ ret' = NoCall
    /\ UNCHANGED <<now, requests, next_id, dns_cache, dns, dnsWire, dnsIn, queries, emitted, failed, submits>>

\* the request of ticket t has been written to its connection
Written(t) == \E i \in 1 .. Len(requests) : requests[i].id = t /\ requests[i].state \in {"RecvHead", "RecvBody"}

\* the next byte of the peer's response arrives, once the peer has the
\* whole request
PeerDeliver(t) ==
    /\ Alive
    /\ conns[t].stage = "open" /\ Written(t) /\ conns[t].sent = RequestLen
    /\ ~conns[t].eof /\ conns[t].rest # <<>>
    /\ conns' = [conns EXCEPT ![t].inbuf = Append(@, Head(conns[t].rest)), ![t].rest = Tail(@)]
    /\ ret' = NoCall
    /\ UNCHANGED <<now, requests, next_id, dns_cache, dns, dnsWire, dnsIn, queries, emitted, failed, submits>>

\* the peer closes the stream; what it has not sent never comes, and full
\* becomes the bytes it has sent
PeerClose(t) ==
    /\ Alive
    /\ conns[t].stage = "open" /\ Written(t)
    /\ ~conns[t].eof
    /\ conns' = [conns EXCEPT ![t].eof = TRUE, ![t].rest = <<>>,
                              ![t].full = Take(@, Len(@) - Len(conns[t].rest))]
    /\ ret' = NoCall
    /\ UNCHANGED <<now, requests, next_id, dns_cache, dns, dnsWire, dnsIn, queries, emitted, failed, submits>>

\* the DNS server answers a query
Answers == {<<>>} \cup {<<[rtype |-> "A", addr |-> 1, ttl |-> ttl]>> : ttl \in 0 .. MaxTTL}
Replies == {[rcode |-> "NoError", answers |-> a] : a \in Answers}
             \cup {[rcode |-> c, answers |-> <<>>] : c \in {"NameError", "ServFail"}}
DnsReply(q, reply) ==
    /\ Alive
    /\ q \in dnsWire
    /\ dnsWire' = dnsWire \ {q}
    /\ dnsIn' = Append(dnsIn, [id |-> q.id, rcode |-> reply.rcode, answers |-> reply.answers,
                               parses |-> TRUE])
    /\ ret' = NoCall
    /\ UNCHANGED <<now, requests, next_id, dns_cache, dns, conns, queries, emitted, failed, submits>>

\* a datagram that is not a DNS message arrives on the resolver's socket; id
\* is what its first two bytes read as
DnsMalformed(id) ==
    /\ Alive
    /\ dns.socket
    /\ dnsIn = <<>>
    /\ dnsIn' = <<[id |-> id, rcode |-> "NoError", answers |-> <<>>, parses |-> FALSE]>>
    /\ ret' = NoCall
    /\ UNCHANGED <<now, requests, next_id, dns_cache, dns, conns, dnsWire, queries, emitted, failed, submits>>

----------------------------------------------------------------------------
(* Specifications *)

Init ==
    /\ now = 0
    /\ requests = <<>>
    /\ next_id = 0
    /\ dns_cache = [h \in Hosts |-> None]
    /\ dns = [token |-> DnsToken, socket |-> FALSE, write_outdated |-> FALSE, edge |-> FALSE,
              requests |-> <<>>, next_id |-> 0]
    /\ conns = [t \in Tickets |-> NoConn]
    /\ dnsWire = {}
    /\ dnsIn = <<>>
    /\ queries = [h \in Hosts |-> 0]
    /\ emitted = [t \in Tickets |-> <<>>]
    /\ failed = FALSE
    /\ submits = [t \in Tickets |-> [host |-> "", sent |-> FALSE, hit |-> FALSE, overlap |-> FALSE]]
    /\ ret = NoCall

Timeouts == {None} \cup {Some(d) : d \in 1 .. MaxTimeout}

\* responses of the peers
Identity(n, body) == <<"S", CASE n = 0 -> "L0" [] n = 1 -> "L1" [] n = 2 -> "L2" [] n = 3 -> "L3", "E">> \o body
Chunked(body) == <<"S", "T", "E">> \o body
Bare == <<"S", "E">>
BodyScripts == {Identity(0, <<>>), Identity(2, <<"x", "a">>),
                Chunked(<<"1", "CR", "LF", "a", "CR", "LF", "0", "CR", "LF", "CR", "LF">>),
                Chunked(<<"x", "CR", "LF", "0", "CR", "LF", "CR", "LF">>)}

\* the caller gives a request the lowest token no live request uses
FreeToken == CHOOSE t \in Tokens \ LiveTokens : \A u \in Tokens \ LiveTokens : t <= u

Both == {[readable |-> TRUE, writable |-> TRUE]}

Network ==
    \/ \E t \in Tickets : TcpConnect(t)
    \/ \E t \in Tickets : PeerDeliver(t)
    \/ \E t \in Tickets : PeerClose(t)
    \/ \E q \in dnsWire, reply \in Replies : DnsReply(q, reply)

\* two requests without deadlines, to one host or to two: the resolver and the
\* address cache
Next ==
    \/ \E host \in Hosts :
            Tokens \ LiveTokens # {} /\ Send(host, FreeToken, None, Bare)
    \/ \E events \in EventListsWith(AllTokens, Both) : Pump(events)
    \/ Network
    \/ Tick

Spec == Init /\ [][Next]_vars

\* two requests to one host, with and without deadlines
NextDeadline ==
    \/ \E timeout \in Timeouts :
            Tokens \ LiveTokens # {} /\ Send("h1", FreeToken, timeout, Bare)
    \/ \E events \in EventListsWith(AllTokens, Both) : Pump(events)
    \/ Network
    \/ Tick

SpecDeadline == Init /\ [][NextDeadline]_vars

\* one request, and the ways its response can arrive
NextBody ==
    \/ \E script \in BodyScripts :
            next_id = 0 /\ Send("h1", 1, None, script)
    \/ \E events \in EventListsOver({DnsToken, 1}) : Pump(events)
    \/ Network

SpecBody == Init /\ [][NextBody]_vars

\* one request, and response heads of every kind
HeadScripts == {<<"S", "Lx", "E">>, <<"S", "Tg", "L2", "E", "x", "a">>, Bare,
                <<"S", "L1", "E", "x", "a">>}
NextHead ==
    \/ \E script \in HeadScripts :
            next_id = 0 /\ Send("h1", 1, None, script)
    \/ \E events \in EventListsOver({DnsToken, 1}) : Pump(events)
    \/ Network

SpecHead == Init /\ [][NextHead]_vars

\* two requests to one host while the operating system may refuse a socket
NextOs ==
    \/ Tokens \ LiveTokens # {} /\ Send("h1", FreeToken, None, Bare)
    \/ SendFails("h1")
    \/ \E events \in EventListsWith(AllTokens, Both), os \in BOOLEAN : PumpOs(events, os)
    \/ Network

SpecOs == Init /\ [][NextOs]_vars

\* the requests whose headers are formatted
HeaderNames == {"Accept-Encoding", "accept-encoding", "User-Agent", "Connection"}
HeaderValues == {"gzip", "identity"}
Headers == {Header(n, v) : n \in HeaderNames, v \in HeaderValues}
HeaderLists == UNION {[1 .. n -> Headers] : n \in 0 .. MaxHeaders}

Paths == {<<>>, <<"/">>, <<"p">>, <<"/", "p">>}
Queries == {Query(n, "v") : n \in {"k1", "k2"}}
QueryLists == UNION {[1 .. n -> Queries] : n \in 0 .. MaxQueries}

InitFormat ==
    /\ now = 0
    /\ requests = <<>>
    /\ next_id = 0
    /\ dns_cache = [h \in Hosts |-> None]
    /\ dns = [token |-> DnsToken, socket |-> FALSE, write_outdated |-> FALSE, edge |-> FALSE,
              requests |-> <<>>, next_id |-> 0]
    /\ conns = [t \in Tickets |-> NoConn]
    /\ dnsWire = {}
    /\ dnsIn = <<>>
    /\ queries = [h \in Hosts |-> 0]
    /\ emitted = [t \in Tickets |-> <<>>]
    /\ failed = FALSE
    /\ submits = [t \in Tickets |-> [host |-> "", sent |-> FALSE, hit |-> FALSE, overlap |-> FALSE]]
    /\ \E headers \in HeaderLists, path \in Paths, qs \in QueryLists :
            ret = [NoCall EXCEPT !.request = headers, !.path = path, !.queries = qs]

NextFormat == Format

SpecFormat == InitFormat /\ [][NextFormat]_vars

\* a SimpleClient: single requests and batches of one or two requests, which
\* end in any way and in any order
Outcomes == {"Done", "TimedOut", "UnknownHost", "Error"}
Batches == [1 .. 1 -> Outcomes] \cup [1 .. 2 -> Outcomes]
Orders(n) == {o \in [1 .. n -> 1 .. n] : \A i \in 1 .. n : \E k \in 1 .. n : o[k] = i}

NextSimple ==
    \/ SimpleSend
    \/ \E input \in Batches : \E order \in Orders(Len(input)) : Many(input, order)

SpecSimple == Init /\ [][NextSimple]_vars

\* the SimpleClient serving one blocking call after another, a send or a
\* stream, over one inner Client
Shapes == {<<"Head", "Done">>, <<"Head", "Data", "Done">>, <<"Head", "Data", "Data", "Done">>,
           <<"Head", "Data", "Error">>, <<"TimedOut">>, <<"UnknownHost">>}
SendPolls == \E adv \in Advances(requests) : SendPoll(adv)
StreamPolls == \E adv \in Advances(requests) : StreamPoll(adv)
NextCalls ==
    \/ \E shape \in Shapes : SendCall(shape)
    \/ SendPolls
    \/ \E shape \in Shapes : StreamCall(shape)
    \/ StreamPolls
SpecCalls == Init /\ [][NextCalls]_vars

\* directory trees two levels deep with at most two entries in a directory,
\* and closures that fail on no file or on one
Slots == {1, 2}
Listings(entries) == {<<>>} \cup UNION {[1 .. n -> entries] : n \in Slots}
Trees == Listings({File} \cup {Dir(t) : t \in Listings({File} \cup {Dir(u) : u \in Listings({File})})})

InitTraverse ==
    /\ now = 0
    /\ requests = <<>>
    /\ next_id = 0
    /\ dns_cache = [h \in Hosts |-> None]
    /\ dns = [token |-> DnsToken, socket |-> FALSE, write_outdated |-> FALSE, edge |-> FALSE,
              requests |-> <<>>, next_id |-> 0]
    /\ conns = [t \in Tickets |-> NoConn]
    /\ dnsWire = {}
    /\ dnsIn = <<>>
    /\ queries = [h \in Hosts |-> 0]
    /\ emitted = [t \in Tickets |-> <<>>]
    /\ failed = FALSE
    /\ submits = [t \in Tickets |-> [host |-> "", sent |-> FALSE, hit |-> FALSE, overlap |-> FALSE]]
    /\ \E tree \in Trees :
         \E bad \in {{}} \cup {{build(tree).calls[k]} : k \in 1 .. Len(build(tree).calls)} :
            ret = [NoCall EXCEPT !.input = [tree |-> tree, bad |-> bad]]

NextTraverse == Build \/ Apply \/ ApplySkip

SpecTraverse == InitTraverse /\ [][NextTraverse]_vars

\* timeout(future, d) for the durations up to MaxDuration
InitRun ==
    /\ now = 0
    /\ requests = <<>>
    /\ next_id = 0
    /\ dns_cache = [h \in Hosts |-> None]
    /\ dns = [token |-> DnsToken, socket |-> FALSE, write_outdated |-> FALSE, edge |-> FALSE,
              requests |-> <<>>, next_id |-> 0]
    /\ conns = [t \in Tickets |-> NoConn]
    /\ dnsWire = {}
    /\ dnsIn = <<>>
    /\ queries = [h \in Hosts |-> 0]
    /\ emitted = [t \in Tickets |-> <<>>]
    /\ failed = FALSE
    /\ submits = [t \in Tickets |-> [host |-> "", sent |-> FALSE, hit |-> FALSE, overlap |-> FALSE]]
    /\ \E d \in 1 .. MaxDuration, intact \in BOOLEAN, ready \in BOOLEAN :
            ret = [NoCall EXCEPT !.op = "run", !.status = "polling",
                                 !.input = [d |-> d, intact |-> intact],
                                 !.results = [timeout |-> d, wait_from |-> 0, ready |-> ready]]

NextRun ==
    \/ RunPoll
    \/ \E ready \in BOOLEAN : RunWake(ready)
    \/ RunRecvTimeout
    \/ RunElapse

SpecRun == InitRun /\ [][NextRun]_vars

\* the events an edge-triggered poll gives for the resolver's socket: the
\* writable event that a registration owes, and a readable event while
\* datagrams have arrived; the readiness reported along with a readable event
\* may include writable
Delivered ==
    IF ~dns.socket THEN {<<>>}
    ELSE LET readable == dnsIn # <<>>
             writables == IF dns.edge THEN {TRUE} ELSE IF readable THEN BOOLEAN ELSE {FALSE}
         IN  {IF readable \/ w
              THEN <<[token |-> dns.token, readable |-> readable, writable |-> w]>>
              ELSE <<>> : w \in writables}

\* poll and then pump with the events of the poll
PumpDelivered == \E events \in Delivered : Pump(events)

\* requests to two hosts without deadlines, the resolver's socket under an
\* edge-triggered poll
NextEdge ==
    \/ \E host \in Hosts :
            Tokens \ LiveTokens # {} /\ Send(host, FreeToken, None, Bare)
    \/ PumpDelivered
    \/ \E q \in dnsWire, reply \in Replies : DnsReply(q, reply)
    \/ Tick

\* the caller calls pump again and again with what the poll gave
SpecEdge == Init /\ [][NextEdge]_vars /\ WF_vars(Tick) /\ []<>(ret.op = "pump")

\* two requests, and a DNS server whose datagrams may be malformed
NextMalformed ==
    \/ \E host \in Hosts :
            Tokens \ LiveTokens # {} /\ Send(host, FreeToken, None, Bare)
    \/ \E events \in EventListsWith(AllTokens, Both) : Pump(events)
    \/ \E q \in dnsWire, reply \in Replies : DnsReply(q, reply)
    \/ \E id \in Tickets : DnsMalformed(id)

SpecMalformed == Init /\ [][NextMalformed]_vars

\* two requests, and send buffers that may be short of room
NextRoom ==
    \/ \E host \in Hosts :
            Tokens \ LiveTokens # {} /\ Send(host, FreeToken, None, Bare)
    \/ \E events \in EventListsWith(AllTokens, Both), room \in 0 .. RequestLen :
            PumpRoom(events, room)
    \/ Network

SpecRoom == Init /\ [][NextRoom]_vars

\* two requests to one host over TLS
NextTls ==
    \/ Tokens \ LiveTokens # {} /\ SendMode("h1", FreeToken, None, Bare, TRUE)
    \/ \E events \in EventListsWith(AllTokens, Both), wb \in BOOLEAN : PumpTls(events, wb)
    \/ Network

SpecTls == Init /\ [][NextTls]_vars

\* one request with a deadline; the clock runs and the caller keeps pumping
PumpAny == \E events \in EventListsOver({DnsToken, 1}) : Pump(events)
NextLive ==
    \/ \E timeout \in Timeouts, script \in {Bare, Identity(1, <<"x">>)} :
            next_id = 0 /\ Send("h1", 1, timeout, script)
    \/ PumpAny
    \/ Network
    \/ Tick

\* the clock does not stop while it is observed, and the caller calls pump
\* again and again, with whatever events the poll gave
SpecLive == Init /\ [][NextLive]_vars /\ WF_vars(Tick) /\ []<>(ret.op = "pump")

----------------------------------------------------------------------------
(* Vocabulary of the claims *)

Terminal == {"Done", "TimedOut", "UnknownHost", "Aborted", "Error"}

\* the events of ticket t in a list of responses
EventsFor(resps, t) == SelectSeq(resps, LAMBDA e : e.id = t)

\* the bytes of the Data events of a list of responses, concatenated
RECURSIVE DataOf(_)
DataOf(resps) ==
    IF resps = <<>> THEN <<>>
    ELSE (IF resps[1].kind = "Data" THEN resps[1].data ELSE <<>>) \o DataOf(Tail(resps))

HasKind(resps, kind) == \E k \in 1 .. Len(resps) : resps[k].kind = kind
LastKind(resps) == resps[Len(resps)].kind

\* a reference decoder for a chunked body that has arrived in full
RECURSIVE RefChunked(_)
RefChunked(s) ==
    LET cr == CHOOSE k \in 1 .. Len(s) + 1 : (k = Len(s) + 1 \/ s[k] = "CR") /\ \A j \in 1 .. k - 1 : s[j] # "CR"
        size == from_str_radix16(Take(s, cr - 1))
        body == Drop(s, cr + 1)
    IN  IF cr + 1 > Len(s) \/ s[cr + 1] # "LF" \/ size < 0 THEN [ok |-> FALSE, body |-> <<>>]
        ELSE IF size = 0 THEN [ok |-> CrLfOk(body), body |-> <<>>]
        ELSE IF Len(body) < size + 2 \/ ~CrLfOk(Drop(body, size)) THEN [ok |-> FALSE, body |-> <<>>]
        ELSE LET more == RefChunked(Drop(body, size + 2))
             IN  [ok |-> more.ok, body |-> Take(body, size) \o more.body]

\* the body of a complete response, as a reference HTTP/1.1 parser extracts it
RefResponse(full) ==
    LET k == head_parse(full) IN
    IF k <= 0 THEN [ok |-> FALSE, body |-> <<>>]
    ELSE IF HasChunkedHeader(full, k - 1) THEN RefChunked(Drop(full, k))
    ELSE [ok |-> Len(full) - k >= FindContentLength(full, 2, k - 1),
          body |-> Take(Drop(full, k), FindContentLength(full, 2, k - 1))]

\* the step is a call of send / a call of pump that returned Ok
IsSend == ret'.op = "send" /\ next_id' = next_id + 1
PumpReturned == ret'.op = "pump" /\ ret'.status = "ok"

\* the record's deadline has elapsed
Past(r) == IsSome(r.timeout) /\ now - r.time_created >= Unwrap(r.timeout)

Live(reqs, t) == \E i \in 1 .. Len(reqs) : reqs[i].id = t

----------------------------------------------------------------------------
(* C1: for every ticket the events pump has returned are ordered: at most  *)
(* one Head, every Data after the Head, and Done after the Head and after  *)
(* every Data.                                                             *)
C1_Ordered ==
    \A t \in Tickets :
        LET e == emitted[t] IN
        /\ \A h1, h2 \in 1 .. Len(e) : e[h1].kind = "Head" /\ e[h2].kind = "Head" => h1 = h2
        /\ \A k \in 1 .. Len(e) : e[k].kind \in {"Data", "Done"} => \E h \in 1 .. k - 1 : e[h].kind = "Head"
        /\ \A k, d \in 1 .. Len(e) : e[k].kind = "Done" /\ e[d].kind = "Data" => d < k

(* C2: a ticket gets at most one terminal event, and no event of any kind  *)
(* after it: a terminal event is the last event of its ticket.             *)
C2_TerminalIsLast ==
    \A t \in Tickets : \A k \in 1 .. Len(emitted[t]) :
        emitted[t][k].kind \in Terminal => k = Len(emitted[t])

\* a ticket has its terminal event and pump has been called again since
C2_Witness ==
    /\ ret.op = "pump"
    /\ \E t \in Tickets :
        /\ emitted[t] # <<>> /\ LastKind(emitted[t]) \in Terminal
        /\ EventsFor(ret.events, t) = <<>>

(* C3: for a request that ends with Done, the bytes of its Data events,    *)
(* concatenated, are the body of the response the peer sent, however the   *)
(* stream was split across reads and readable events.                      *)
C3_BodyExact ==
    \A t \in Tickets :
        (HasKind(emitted[t], "Done") /\ RefResponse(conns[t].full).ok)
            => DataOf(emitted[t]) = RefResponse(conns[t].full).body

(* C4: a record whose deadline has elapsed when pump is called gets        *)
(* exactly one TimedOut event in that call and no other event, and is      *)
(* removed by the end of the call, whatever its phase.                     *)
C4_TimedOutOnce ==
    [][PumpReturned =>
        \A i \in 1 .. Len(requests) :
            Past(requests[i]) =>
                /\ EventsFor(ret'.events, requests[i].id) = <<Response(requests[i].id, "TimedOut", <<>>)>>
                /\ ~Live(requests', requests[i].id)]_vars

\* a pump call has timed out a record that never got past the resolution
C4_Witness ==
    /\ ret.op = "pump"
    /\ \E t \in Tickets :
        /\ emitted[t] = <<Response(t, "TimedOut", <<>>)>>
        /\ EventsFor(ret.events, t) # <<>>
        /\ conns[t].stage = "none"

(* C5: a request with a deadline eventually gets a terminal event, and     *)
(* only one, when the clock runs, pump keeps being called and no call      *)
(* fails, whatever the peer and the DNS server do.                         *)
C5_Terminates ==
    /\ \A t \in Tickets :
        (\E i \in 1 .. Len(requests) :
            /\ requests[i].id = t /\ IsSome(requests[i].timeout)
            /\ requests[i].time_created + Unwrap(requests[i].timeout) <= MaxTime)
        ~> (failed \/ (emitted[t] # <<>> /\ LastKind(emitted[t]) \in Terminal))
    /\ [](\A t \in Tickets : \A j, k \in 1 .. Len(emitted[t]) :
            emitted[t][j].kind \in Terminal /\ emitted[t][k].kind \in Terminal => j = k)

\* a request has been ended by its deadline
C5_Witness ==
    \E t \in Tickets : emitted[t] # <<>> /\ LastKind(emitted[t]) = "TimedOut" /\ ~Live(requests, t)

(* C6: when the peer closes an identity-framed response after the head and *)
(* before Content-Length bytes have arrived, the ticket gets Head, the     *)
(* bytes received as Data, and then Aborted.                               *)
C6_Aborted ==
    \A t \in Tickets :
        LET e == emitted[t] IN
        (/\ e # <<>> /\ e[1].kind = "Head" /\ ~e[1].head.transfer_chunked
         /\ LastKind(e) \in Terminal
         /\ Len(DataOf(e)) < e[1].head.content_length)
            => /\ LastKind(e) = "Aborted"
               /\ \A k \in 2 .. Len(e) - 1 : e[k].kind = "Data"

(* C7: when a record is in RecvHead and the whole response, head and an    *)
(* identity body of Content-Length bytes, can be read at a readable event  *)
(* for it, that pump call returns Head, Data with the whole body (no Data  *)
(* for an empty body) and Done for the ticket, and removes the record.     *)
C7_SinglePass ==
    [][\A events \in EventListsOver({DnsToken, 1}) : \A i \in 1 .. Len(requests) :
        LET r == requests[i]
            full == conns[r.id].full
            k == head_parse(full)
            body == Drop(full, k)
        IN  (/\ Pump(events) /\ ret'.status = "ok"
             /\ r.state = "RecvHead"
             /\ \E e \in 1 .. Len(events) : events[e].token = r.token /\ events[e].readable
             /\ r.buffer \o conns[r.id].inbuf = full
             /\ k > 0 /\ ~HasChunkedHeader(full, k - 1)
             /\ Len(body) = FindContentLength(full, 2, k - 1))
            => /\ EventsFor(ret'.events, r.id) =
                    <<HeadResponse(r.id, Len(body), FALSE)>>
                    \o (IF body = <<>> THEN <<>> ELSE <<Response(r.id, "Data", body)>>)
                    \o <<Response(r.id, "Done", <<>>)>>
               /\ ~Live(requests', r.id)]_vars

\* one pump call has returned the head, the whole body and Done
C7_Witness ==
    /\ ret.op = "pump" /\ Len(ret.events) = 3
    /\ ret.events[1].kind = "Head" /\ ret.events[2].kind = "Data" /\ ret.events[3].kind = "Done"
    /\ ret.events[2].data = <<"x", "a">>
    /\ requests = <<>>

(* C8: when a second request to a host is submitted while the resolution   *)
(* the first one started is still running, only one DNS query for the host *)
(* is ever sent.                                                           *)
C8_OneQuery ==
    \A t \in Tickets :
        submits[t].sent /\ submits[t].overlap => queries[submits[t].host] <= 1

(* C8, amended: every request submitted without a fresh cache entry starts *)
(* its own resolution: at most one query is sent per such request, two     *)
(* requests resolving at once hold distinct ids that are both pending in   *)
(* the resolver, and a record leaves Resolving only in a pump call that    *)
(* takes the query with its own id out of the resolver.                    *)
C8_OwnQuery ==
    /\ [](/\ \A h \in Hosts :
                queries[h] <= Cardinality({t \in Tickets : submits[t].sent /\ submits[t].host = h /\ ~submits[t].hit})
          /\ \A i, j \in 1 .. Len(requests) :
                (i # j /\ requests[i].state = "Resolving" /\ requests[j].state = "Resolving")
                    => /\ requests[i].dns_id # requests[j].dns_id
                       /\ Position(dns.requests, requests[i].dns_id) > 0)
    /\ [][\A i \in 1 .. Len(requests) :
            (/\ requests[i].state = "Resolving"
             /\ \A j \in 1 .. Len(requests') :
                    requests'[j].id = requests[i].id => requests'[j].state # "Resolving")
                => /\ Position(dns.requests, requests[i].dns_id) > 0
                   /\ Position(dns'.requests, requests[i].dns_id) = 0]_vars

\* two overlapping requests to one host, two queries sent, both answered by
\* their peers
C8_Witness ==
    \E t \in Tickets :
        /\ submits[t].sent /\ submits[t].overlap
        /\ queries[submits[t].host] = 2
        /\ \A u \in Tickets : HasKind(emitted[u], "Head") /\ HasKind(emitted[u], "Done")

(* C9: a cache entry is fresh while now - insertion <= TTL, the instant    *)
(* where the two are equal included; a send for a host with a fresh entry  *)
(* starts no resolution and stores the record in Sending.                  *)
C9_FreshInclusive ==
    [][IsSend =>
        LET host == submits'[next_id].host
            c == dns_cache[host]
            r == requests'[Len(requests')]
        IN  (IsSome(c) /\ now - Unwrap(c).time_created <= Unwrap(c).ttl)
                => r.state = "Sending" /\ dns' = dns]_vars

(* C9, amended: a cache entry is fresh while now - insertion < TTL; a send *)
(* for a host with a fresh entry issues no query and stores the record in  *)
(* Sending with a connection registered under its token, and a send for a  *)
(* host with no entry or a stale one starts a resolution.                  *)
C9_FreshStrict ==
    [][IsSend =>
        LET host == submits'[next_id].host
            c == dns_cache[host]
            r == requests'[Len(requests')]
        IN  /\ Len(requests') = Len(requests) + 1 /\ r.id = next_id /\ r.host = host
            /\ IF IsSome(c) /\ now - Unwrap(c).time_created < Unwrap(c).ttl
               THEN /\ r.state = "Sending"
                    /\ conns'[r.id].stage = "connecting" /\ conns'[r.id].reg = Some(r.token)
                    /\ dns' = dns /\ queries' = queries /\ dnsWire' = dnsWire
               ELSE /\ r.state = "Resolving"
                    /\ conns'[r.id].stage = "none"
                    /\ Len(dns'.requests) = Len(dns.requests) + 1
                    /\ dns'.requests[Len(dns'.requests)].id = r.dns_id
                    /\ dns'.requests[Len(dns'.requests)].host = host]_vars

\* a send at the instant where the age of the entry equals its TTL has
\* started a resolution
C9_Witness ==
    /\ ret.op = "send" /\ ~submits[ret.id].hit
    /\ requests[Len(requests)].state = "Resolving"
    /\ LET c == dns_cache[submits[ret.id].host] IN
        IsSome(c) /\ Unwrap(c).ttl > 0 /\ now - Unwrap(c).time_created = Unwrap(c).ttl

(* C10: after a send that succeeded the new record is in Resolving with a  *)
(* dns_id that is pending in the resolver, or in Sending with a connection *)
(* registered under the caller's token.                                    *)
C10_ResolvingOrConnected ==
    ret.op = "send" =>
        /\ requests # <<>>
        /\ LET r == requests[Len(requests)] IN
           /\ r.id = ret.id
           /\ \/ /\ r.state = "Resolving"
                 /\ Position(dns.requests, r.dns_id) > 0
                 /\ conns[r.id].stage = "none"
              \/ /\ r.state = "Sending"
                 /\ conns[r.id].stage = "connecting"
                 /\ conns[r.id].reg = Some(r.token)

\* a send has put a second query into the resolver
C10_Witness ==
    /\ ret.op = "send"
    /\ requests[Len(requests)].state = "Resolving"
    /\ Len(dns.requests) = 2

(* C11: a record leaves Resolving in a pump call only as the answer to its *)
(* query says: NXDOMAIN gives UnknownHost, NOERROR without an A answer or  *)
(* any other rcode gives Error, an elapsed deadline gives TimedOut, and in *)
(* these cases the record is removed and never had a connection; NOERROR   *)
(* with an A answer puts (addr, ttl) into the cache and moves the record   *)
(* to Sending with no event.                                               *)
C11_Ended(r, kind) ==
    /\ EventsFor(ret'.events, r.id) = <<Response(r.id, kind, <<>>)>>
    /\ ~Live(requests', r.id)
    /\ conns'[r.id].stage = "none" /\ conns'[r.id].reg = None

C11_Answered(r, pkt) ==
    LET as == SelectSeq(pkt.answers, LAMBDA a : a.rtype = "A") IN
    IF pkt.rcode = "NameError" THEN C11_Ended(r, "UnknownHost")
    ELSE IF pkt.rcode # "NoError" \/ as = <<>> THEN C11_Ended(r, "Error")
    ELSE /\ EventsFor(ret'.events, r.id) = <<>>
         /\ \E j \in 1 .. Len(requests') : requests'[j].id = r.id /\ requests'[j].state = "Sending"
         /\ \/ dns_cache'[r.host] = Some([ip_addr |-> as[1].addr, time_created |-> now, ttl |-> as[1].ttl])
            \/ \* a record submitted later was answered in the same call and
               \* its entry has replaced this one
               /\ IsSome(dns_cache'[r.host]) /\ Unwrap(dns_cache'[r.host]).time_created = now
               /\ \E j \in 1 .. Len(requests) :
                    /\ requests[j].id > r.id /\ requests[j].host = r.host
                    /\ requests[j].state = "Resolving"
                    /\ \E m \in 1 .. Len(requests') :
                            requests'[m].id = requests[j].id /\ requests'[m].state = "Sending"
         /\ conns'[r.id].stage = "connecting" /\ conns'[r.id].reg = Some(r.token)

C11_DnsMapping ==
    [][PumpReturned =>
        \A i \in 1 .. Len(requests) :
            LET r == requests[i] IN
            (/\ r.state = "Resolving"
             /\ \/ EventsFor(ret'.events, r.id) # <<>>
                \/ \A j \in 1 .. Len(requests') : requests'[j].id = r.id => requests'[j].state # "Resolving")
                => IF Past(r) THEN C11_Ended(r, "TimedOut")
                   ELSE \E k \in 1 .. Len(dnsIn) : dnsIn[k].id = r.dns_id /\ C11_Answered(r, dnsIn[k])]_vars

\* one pump call has ended one request with UnknownHost and one with Error
C11_Witness ==
    /\ ret.op = "pump"
    /\ \E t, u \in Tickets :
        /\ EventsFor(ret.events, t) = <<Response(t, "UnknownHost", <<>>)>>
        /\ EventsFor(ret.events, u) = <<Response(u, "Error", <<>>)>>
        /\ conns[t].stage = "none" /\ conns[u].stage = "none"
        /\ requests = <<>>

(* C12: the list a pump call returns holds the events of distinct records  *)
(* grouped in submission order, every event of a record submitted earlier  *)
(* before every event of one submitted later; and the records are kept in  *)
(* submission order, which the removal of finished records preserves.      *)
C12_SubmissionOrder ==
    /\ \A j, k \in 1 .. Len(ret.events) : j < k => ret.events[j].id <= ret.events[k].id
    /\ \A j, k \in 1 .. Len(requests) : j < k => requests[j].id < requests[k].id

\* one pump call has returned events of two records, several for the first
C12_Witness ==
    /\ ret.op = "pump" /\ Len(ret.events) >= 3
    /\ ret.events[1].id = 0 /\ ret.events[2].id = 0
    /\ ret.events[Len(ret.events)].id = 1

(* C13: a pump call whose event list is empty, or holds only events whose  *)
(* token is neither the resolver's token nor the token of a live record,   *)
(* returns no events and leaves every record, the address cache and the    *)
(* resolver's pending set as they were, except for what an elapsed         *)
(* deadline does: the record whose deadline has elapsed ends with TimedOut *)
(* and the query whose deadline has elapsed leaves the pending set.        *)
C13_Foreign(events) ==
    \A k \in 1 .. Len(events) : events[k].token # DnsToken /\ events[k].token \notin LiveTokens

C13_Framed ==
    /\ ret'.status = "ok"
    /\ \A k \in 1 .. Len(ret'.events) :
            /\ ret'.events[k].kind = "TimedOut"
            /\ \E i \in 1 .. Len(requests) : requests[i].id = ret'.events[k].id /\ Past(requests[i])
    /\ requests' = SelectSeq(requests, LAMBDA r : ~Past(r))
    /\ dns_cache' = dns_cache
    /\ {dns'.requests[i] : i \in 1 .. Len(dns'.requests)}
         = {dns.requests[i] : i \in {j \in 1 .. Len(dns.requests) :
                                       ~is_elapsed(dns.requests[j].time_created, dns.requests[j].timeout)}}
    /\ dnsWire' = dnsWire /\ dnsIn' = dnsIn

C13_ForeignEventsIgnored ==
    [][\A events \in {e \in EventLists : C13_Foreign(e)} : Pump(events) => C13_Framed]_vars

\* a pump call has returned nothing and the one record, which holds token 1,
\* still waits for its address with its query unsent: the call had no event
\* of the resolver's token, only none at all or one of the unused token
C13_Witness ==
    /\ ret.op = "pump" /\ ret.status = "ok" /\ ret.events = <<>>
    /\ Len(requests) = 1 /\ requests[1].state = "Resolving" /\ requests[1].token = 1
    /\ Len(dns.requests) = 1 /\ dns.requests[1].state = "Pending"

(* C14: the earliest deadline the client reports is the minimum, over the  *)
(* live records that have a deadline, of the time the record has left,     *)
(* max(0, deadline - (now - creation)); it is no value when no live record *)
(* has a deadline.                                                         *)
C14_Left ==
    {IF Unwrap(requests[i].timeout) - (now - requests[i].time_created) > 0
     THEN Unwrap(requests[i].timeout) - (now - requests[i].time_created) ELSE 0 :
        i \in {j \in 1 .. Len(requests) : IsSome(requests[j].timeout)}}

C14_EarliestDeadline ==
    IF C14_Left = {} THEN ClientTimeout = None
    ELSE /\ IsSome(ClientTimeout)
         /\ Unwrap(ClientTimeout) \in C14_Left
         /\ \A d \in C14_Left : Unwrap(ClientTimeout) <= d

\* two records are cases of the minimum: one is past its deadline, by more
\* than nothing, and counts as 0, the other has time left
C14_Witness ==
    /\ ClientTimeout = Some(0)
    /\ \E i, j \in 1 .. Len(requests) :
            /\ IsSome(requests[i].timeout) /\ now - requests[i].time_created > Unwrap(requests[i].timeout)
            /\ IsSome(requests[j].timeout) /\ now - requests[j].time_created < Unwrap(requests[j].timeout)

(* C15: between two submits, over any calls of pump and any passage of     *)
(* time, the earliest deadline the client reports never increases, and it  *)
(* strictly decreases whenever time passes.                                *)
C15_NeverIncreases ==
    [][(next_id' = next_id /\ IsSome(ClientTimeout) /\ IsSome(ClientTimeout'))
         => /\ Unwrap(ClientTimeout') <= Unwrap(ClientTimeout)
            /\ (now' > now => Unwrap(ClientTimeout') < Unwrap(ClientTimeout))]_vars

(* C15, as the code has it: between two submits, over the passage of time  *)
(* and the calls of pump that remove no record with a deadline, the        *)
(* earliest deadline never increases; when time passes it strictly         *)
(* decreases while it is above zero and stays zero once it is zero.        *)
C15_Kept == \A i \in 1 .. Len(requests) : IsSome(requests[i].timeout) => Live(requests', requests[i].id)

C15_DecreasesWhileKept ==
    [][(next_id' = next_id /\ C15_Kept)
         => /\ IsSome(ClientTimeout') = IsSome(ClientTimeout)
            /\ IsSome(ClientTimeout) =>
                 /\ Unwrap(ClientTimeout') <= Unwrap(ClientTimeout)
                 /\ (now' > now /\ Unwrap(ClientTimeout) > 0 => Unwrap(ClientTimeout') < Unwrap(ClientTimeout))
                 /\ (Unwrap(ClientTimeout) = 0 => Unwrap(ClientTimeout') = 0)]_vars

\* time has passed twice over a record with a deadline of 1: the earliest
\* deadline went from 1 to 0 and stayed there
C15_Witness ==
    /\ ret.op = "none" /\ now = 2 /\ ClientTimeout = Some(0)
    /\ \E i \in 1 .. Len(requests) : requests[i].time_created = 0 /\ requests[i].timeout = Some(1)

(* C16: the ticket send returns is the number of requests submitted before *)
(* it, 0 for the first request of a new client and one more for each       *)
(* further request; and every                                              *)
(* event a pump call returns carries the ticket its request got from send: *)
(* it is the ticket of a record held when the call began, which the call   *)
(* removes exactly when the last of its events is a terminal one.          *)
C16_OwnTicket(e) ==
    /\ e.id < next_id
    /\ submits[e.id].sent
    /\ \E i \in 1 .. Len(requests) : requests[i].id = e.id
    /\ (LastKind(EventsFor(ret'.events, e.id)) \in Terminal) = ~Live(requests', e.id)

\* the number of requests submitted so far
C16_Sent == Cardinality({t \in Tickets : submits[t].sent})

C17_HeldAreLive ==
    (ret.op = "pump" /\ ret.status # "panic")
        => \A i \in 1 .. Len(requests) :
                requests[i].state \in {"Resolving", "Sending", "RecvHead", "RecvBody"}

(* C19: when a step of send or pump fails with an error of the operating   *)
(* system, the call returns the error and leaves every record in place, in *)
(* a phase it can go on from: none is dropped and none is left in the      *)
(* intermediate phase Unspecified.                                         *)
C19_ErrorLeavesRecords ==
    [][ret'.status = "err"
         => /\ Len(requests') = Len(requests)
            /\ \A i \in 1 .. Len(requests) :
                    /\ requests'[i].id = requests[i].id
                    /\ requests'[i].state # "Unspecified"]_vars

(* C18: between the calls the token of a request is registered with the    *)
(* poller exactly while its record is in Sending, RecvHead or RecvBody:    *)
(* every terminal transition deregisters the connection, so that the token *)
(* is free again once the request has completed.  (reg is the entry the    *)
(* registry holds: register_all makes it and only deregister removes it.)  *)
C18_RegisteredWhileConnected ==
    Alive => \A t \in Tickets :
        IF \E i \in 1 .. Len(requests) : requests[i].id = t /\ HasConnection(requests[i])
        THEN \E i \in 1 .. Len(requests) : requests[i].id = t /\ conns[t].reg = Some(requests[i].token)
        ELSE conns[t].reg = None

(* C20: the formatted request carries the line Accept-Encoding: identity   *)
(* of the client's own exactly when the caller has supplied no             *)
(* Accept-Encoding header: the lines after the two fixed ones are the      *)
(* caller's headers, followed by that line if and only if none of the      *)
(* caller's headers is named Accept-Encoding.                              *)
C20_Supplied == \E k \in 1 .. Len(ret.request) : ret.request[k].name = "Accept-Encoding"

C20_IdentityByDefault ==
    (ret.op = "format" /\ ret.status = "ok")
        => ret.bytes = <<Header("Content-Length", 0), Header("Connection", "close")>>
                         \o ret.request
                         \o (IF C20_Supplied THEN <<>> ELSE <<Header("Accept-Encoding", "identity")>>)

(* C21: the request line of the formatted request carries every query      *)
(* parameter of the request after the path, as ?k1=v1&k2=v2 in the order   *)
(* in which the parameters were added.                                     *)
RECURSIVE C21_Serialised(_, _)
C21_Serialised(qs, first) ==
    IF qs = <<>> THEN <<>>
    ELSE <<IF first THEN "?" ELSE "&", qs[1].name, "=", qs[1].value>>
         \o C21_Serialised(Tail(qs), FALSE)

C21_QueriesWritten ==
    (ret.op = "format" /\ ret.status = "ok")
        => \E k \in 1 .. Len(ret.line) + 1 :
                /\ SubSeq(ret.line, k, Len(ret.line)) = C21_Serialised(ret.queries, TRUE)
                /\ \A j \in 1 .. k - 1 : ret.line[j] \notin {"?", "&", "="}

(* C22: many, called after any earlier operations on the same              *)
(* SimpleClient, returns as many results as it was given requests, and     *)
(* result i is the outcome of request i.                                   *)
C22_ManyInOrder ==
    ret.op = "many"
        => /\ ret.status = "ok"
           /\ Len(ret.results) = Len(ret.input.outcomes)
           /\ \A i \in 1 .. Len(ret.input.outcomes) :
                ret.results[i] = IF ret.input.outcomes[i] = "Done" THEN "Ok" ELSE ret.input.outcomes[i]

(* C23: for one directory tree, build returns every regular file of the    *)
(* tree exactly once and no directory, and apply calls its closure, when   *)
(* that does not fail, on exactly those paths, once each and in the order  *)
(* in which build returns them.                                            *)
RECURSIVE C23_Kind(_, _)
C23_Kind(tree, path) ==
    IF path = <<>> THEN "dir"
    ELSE IF Head(path) \notin 1 .. Len(tree) THEN "none"
    ELSE IF Len(path) = 1 THEN tree[Head(path)].kind
    ELSE C23_Kind(tree[Head(path)].items, Tail(path))

\* the paths of a tree two levels deep
C23_Paths == UNION {[1 .. n -> Slots] : n \in 1 .. 3}
C23_Files(tree) == {p \in C23_Paths : C23_Kind(tree, p) = "file"}

C23_Once(paths, files) ==
    /\ {paths[k] : k \in 1 .. Len(paths)} = files
    /\ \A j, k \in 1 .. Len(paths) : paths[j] = paths[k] => j = k

C23_BuildAndApply ==
    /\ ret.op = "build" => ret.status = "ok" /\ C23_Once(ret.results, C23_Files(ret.input.tree))
    /\ (ret.op = "apply" /\ ret.input.bad = {}) =>
            /\ ret.status = "ok"
            /\ C23_Once(ret.results, C23_Files(ret.input.tree))
            /\ ret.results = build(ret.input.tree).calls

\* apply has walked a tree with files on all three levels, between and after
\* directories
C23_Witness ==
    /\ ret.op = "apply" /\ ret.input.bad = {}
    /\ ret.results = <<<<1, 1, 1>>, <<1, 2>>, <<2>>>>

(* C24: when the closure of apply_skip fails on a file, that file is       *)
(* skipped and the traversal goes on: the closure is called on every       *)
(* regular file of the tree, once, also on the files that follow the       *)
(* failing one in its directory, at any depth, and apply_skip returns Ok.  *)
C24_SkipGoesOn ==
    ret.op = "apply_skip"
        => /\ ret.status = "ok"
           /\ C23_Once(ret.results, C23_Files(ret.input.tree))

(* C25: timeout(future, d) returns None when d has elapsed since the call, *)
(* not before, and it returns: while d has not elapsed it goes on waiting  *)
(* for the future, whatever the number of wake-ups before the future is    *)
(* ready, so that a future that becomes ready before then yields Some.     *)
C25_WaitsForDuration ==
    ret.op = "run"
        => /\ ret.status \notin {"panic", "crash"}
           /\ ret.status = "none" => now >= ret.input.d

(* C26: when a pump of the resolver ends with no query pending, the         *)
(* resolver holds no socket, whether the last query left by a response or   *)
(* by its timeout.                                                          *)
C26_NoSocketWhenIdle ==
    (ret.op = "pump" /\ dns.requests = <<>>) => ~dns.socket

(* C27: every query that resolve has recorded is sent or timed out in the   *)
(* end, whatever other traffic there is: a query recorded while the socket  *)
(* exists and its writable event has been consumed does not stay Pending.   *)
C27_Pending(id) ==
    \E i \in 1 .. Len(dns.requests) :
        dns.requests[i].id = id /\ dns.requests[i].state = "Pending"
C27_SentOrTimedOut == \A id \in Tickets : C27_Pending(id) ~> ~C27_Pending(id)

(* C28: a malformed DNS datagram never makes pump fail or abort: when its   *)
(* ID is that of a pending query, the query is removed and its request ends *)
(* with Error; otherwise the datagram is dropped and the pending queries    *)
(* are the ones there were.                                                 *)
C28_Read(events) ==
    /\ dns.socket /\ dnsIn # <<>> /\ ~Head(dnsIn).parses
    /\ \E k \in 1 .. Len(events) : events[k].token = dns.token /\ events[k].readable
C28_Ids(reqs) == {reqs[i].id : i \in 1 .. Len(reqs)}
C28_Handled ==
    /\ ret'.status = "ok"
    /\ LET pkt == Head(dnsIn) IN
       IF pkt.id \in C28_Ids(dns.requests)
       THEN /\ pkt.id \notin C28_Ids(dns'.requests)
            /\ \A i \in 1 .. Len(requests) :
                   (requests[i].state = "Resolving" /\ requests[i].dns_id = pkt.id)
                       => HasKind(EventsFor(ret'.events, requests[i].id), "Error")
       ELSE Len(dnsIn) = 1 => C28_Ids(dns'.requests) = C28_Ids(dns.requests)
C28_MalformedHandled ==
    [][\A events \in EventListsWith(AllTokens, Both) :
            (Pump(events) /\ C28_Read(events)) => C28_Handled]_vars

(* C29: a record leaves Sending only when its whole request is written: a   *)
(* write that takes part of the bytes leaves the record in Sending with the *)
(* rest, which a later writable event writes, and a record in RecvHead or   *)
(* beyond has had every byte of its request written to its connection.      *)
C29_WholeRequestWritten ==
    \A i \in 1 .. Len(requests) :
        /\ requests[i].state \in {"RecvHead", "RecvBody"}
                => conns[requests[i].id].sent = RequestLen
        /\ requests[i].state = "Sending"
                => conns[requests[i].id].sent + requests[i].body = RequestLen

(* C30, as the specification states it: when complete_io of a record's TLS  *)
(* session would block, pump skips the record: no event of the call is      *)
(* applied to it and the record is as it was.                               *)
C30_Tls(r) == HasConnection(r) /\ conns[r.id].secure /\ ~DeadlineElapsed(r)
C30_SkippedOnWouldBlock ==
    [][\A events \in EventListsWith(AllTokens, Both) :
            PumpTls(events, TRUE)
                => \A i \in 1 .. Len(requests) :
                        C30_Tls(requests[i])
                            => \E j \in 1 .. Len(requests') : requests'[j] = requests[i]]_vars

(* C30, as the code has it: a complete_io that would block is not an error  *)
(* and skips nothing: pump returns Ok and, unless a TLS handshake is still  *)
(* under way, leaves what it leaves when complete_io does not block; the    *)
(* events of the call are applied to the record.                            *)
C30_Handshaking ==
    \E i \in 1 .. Len(requests) :
        C30_Tls(requests[i]) /\ conns[requests[i].id].stage = "handshaking"
C30_Same(a, b) ==
    /\ a.requests = b.requests /\ a.conns = b.conns /\ a.dns_cache = b.dns_cache
    /\ a.status = b.status /\ a.events = b.events
C30_Left(M) ==
    [requests |-> IF M.st = "ok" THEN retain(M.reqs) ELSE M.reqs, conns |-> M.conns,
     dns_cache |-> M.cache, status |-> M.st, events |-> IF M.st = "ok" THEN M.resps ELSE <<>>]
C30_Pumped(events, D, wb) ==
    C30_Left(PumpReqs([reqs |-> requests, conns |-> conns, cache |-> dns_cache,
                       resps |-> <<>>, st |-> D.st, skip |-> FALSE, os |-> TRUE,
                       room |-> RequestLen, wb |-> wb],
                      1, events, D.resps))
C30_WouldBlockIgnored ==
    [][\A events \in EventListsWith(AllTokens, Both) :
            PumpTls(events, TRUE)
                => /\ ret'.status = "ok"
                   /\ ~C30_Handshaking
                        => C30_Same(C30_Pumped(events, DnsPump(events), TRUE),
                                    C30_Pumped(events, DnsPump(events), FALSE))]_vars

\* a pump whose complete_io would block has written the request of a TLS
\* record and moved it to RecvHead
C30_Witness ==
    /\ ret.op = "pump" /\ ret.input.wb
    /\ \E i \in 1 .. Len(requests) :
            /\ requests[i].state = "RecvHead"
            /\ conns[requests[i].id].secure /\ conns[requests[i].id].sent = RequestLen
            /\ \A j \in 1 .. Len(requests) : requests[j].state # "Resolving"

(* C31: a record in RecvHead whose bytes are an incomplete head stays in    *)
(* RecvHead with every byte read and gets no event while the stream is      *)
(* open, and gets Error and is removed when the stream has ended; the Head  *)
(* event of a head that came in several reads is the one of the whole head. *)
C31_HeadOf(t, full) ==
    HeadResponse(t, FindContentLength(full, 2, head_parse(full) - 1),
                 HasChunkedHeader(full, head_parse(full) - 1))
C31_Incomplete(events, r) ==
    /\ r.state = "RecvHead"
    /\ \E e \in 1 .. Len(events) : events[e].token = r.token /\ events[e].readable
    /\ head_parse(r.buffer \o conns[r.id].inbuf) = 0
C31_HeadAcrossReads ==
    [][/\ \A events \in EventListsOver({DnsToken, 1}) : \A i \in 1 .. Len(requests) :
            LET r == requests[i] IN
            (Pump(events) /\ ret'.status = "ok" /\ C31_Incomplete(events, r))
                => IF conns[r.id].eof
                   THEN /\ EventsFor(ret'.events, r.id) = <<Response(r.id, "Error", <<>>)>>
                        /\ ~Live(requests', r.id)
                   ELSE /\ EventsFor(ret'.events, r.id) = <<>>
                        /\ \E j \in 1 .. Len(requests') :
                                /\ requests'[j].id = r.id /\ requests'[j].state = "RecvHead"
                                /\ requests'[j].buffer = r.buffer \o conns[r.id].inbuf
       /\ \A t \in Tickets : \A k \in 1 .. Len(emitted'[t]) :
            emitted'[t][k].kind = "Head"
                => /\ head_parse(conns'[t].full) > 0
                   /\ emitted'[t][k] = C31_HeadOf(t, conns'[t].full)]_vars

\* a pump call has read a part of a head: the record waits in RecvHead with
\* the bytes, and the call returned no event
C31_Witness ==
    /\ ret.op = "pump" /\ ret.status = "ok" /\ ret.events = <<>>
    /\ \E i \in 1 .. Len(requests) :
            requests[i].state = "RecvHead" /\ requests[i].buffer = <<"S", "L2">>

(* C32: a head whose Content-Length value is not a number makes pump return *)
(* the terminal event Error for the ticket, and pump returns normally.      *)
C32_BadLength(events, r) ==
    /\ r.state = "RecvHead"
    /\ \E e \in 1 .. Len(events) : events[e].token = r.token /\ events[e].readable
    /\ LET buf == r.buffer \o conns[r.id].inbuf IN
       head_parse(buf) > 0 /\ \E k \in 2 .. head_parse(buf) - 1 : buf[k] = "Lx"
C32_BadLengthIsError ==
    [][\A events \in EventListsOver({DnsToken, 1}) : \A i \in 1 .. Len(requests) :
            (Pump(events) /\ C32_BadLength(events, requests[i]))
                => /\ ret'.status = "ok"
                   /\ EventsFor(ret'.events, requests[i].id)
                        = <<Response(requests[i].id, "Error", <<>>)>>]_vars

(* C33: a head with a Transfer-Encoding other than identity or chunked is   *)
(* rejected: the ticket gets the terminal event Error, and no Data.         *)
C33_OtherEncoding(events, r) ==
    /\ r.state = "RecvHead"
    /\ \E e \in 1 .. Len(events) : events[e].token = r.token /\ events[e].readable
    /\ LET buf == r.buffer \o conns[r.id].inbuf IN
       head_parse(buf) > 0 /\ \E k \in 2 .. head_parse(buf) - 1 : buf[k] = "Tg"
C33_OtherEncodingRejected ==
    [][\A events \in EventListsOver({DnsToken, 1}) : \A i \in 1 .. Len(requests) :
            (Pump(events) /\ C33_OtherEncoding(events, requests[i]))
                => /\ EventsFor(ret'.events, requests[i].id)
                        = <<Response(requests[i].id, "Error", <<>>)>>
                   /\ ~HasKind(emitted'[requests[i].id], "Data")]_vars

(* C34: malformed chunked framing, a chunk-length line that is not          *)
(* hexadecimal, gives the ticket the terminal event Error, and pump returns *)
(* normally.                                                                *)
C34_BadChunkSize(events, r) ==
    /\ r.state = "RecvBody" /\ r.chunked /\ ~IsSome(r.rem)
    /\ \E e \in 1 .. Len(events) : events[e].token = r.token
    /\ LET src == r.buffer \o conns[r.id].inbuf IN
       Len(src) >= 3 /\ Take(src, 3) = <<"x", "CR", "LF">>
C34_BadFramingIsError ==
    [][\A events \in EventListsOver({DnsToken, 1}) : \A i \in 1 .. Len(requests) :
            (Pump(events) /\ C34_BadChunkSize(events, requests[i]))
                => /\ ret'.status = "ok"
                   /\ EventsFor(ret'.events, requests[i].id) # <<>>
                   /\ LastKind(EventsFor(ret'.events, requests[i].id)) = "Error"]_vars

(* C35: for chunked framing Done is returned only when the terminating      *)
(* zero-length chunk has been received; when the peer closes the stream     *)
(* before it, the terminal event is Aborted, never Done.                    *)
C35_Chunked(e) == e # <<>> /\ e[1].kind = "Head" /\ e[1].head.transfer_chunked
C35_DoneAfterLastChunk ==
    \A t \in Tickets :
        LET e == emitted[t] IN
        C35_Chunked(e)
            => /\ HasKind(e, "Done") => RefResponse(conns[t].full).ok
               /\ (conns[t].eof /\ LastKind(e) \in Terminal /\ ~RefResponse(conns[t].full).ok)
                    => LastKind(e) = "Aborted"

(* C36: a head with neither Content-Length nor Transfer-Encoding: chunked   *)
(* is taken as Content-Length 0: the Head event reports content_length 0    *)
(* and transfer_chunked false, and Done is returned by the pump call that   *)
(* returns the Head, whether or not the peer has closed the stream.         *)
C36_NoFraming(events, r) ==
    /\ r.state = "RecvHead"
    /\ \E e \in 1 .. Len(events) : events[e].token = r.token /\ events[e].readable
    /\ LET buf == r.buffer \o conns[r.id].inbuf IN
       /\ head_parse(buf) > 0
       /\ \A k \in 2 .. head_parse(buf) - 1 : buf[k] \notin {"L0", "L1", "L2", "L3", "Lx", "T"}
C36_DoneWithHead ==
    [][\A events \in EventListsOver({DnsToken, 1}) : \A i \in 1 .. Len(requests) :
            LET e == EventsFor(ret'.events, requests[i].id) IN
            (Pump(events) /\ C36_NoFraming(events, requests[i]))
                => /\ ret'.status = "ok"
                   /\ Len(e) >= 2
                   /\ e[1] = HeadResponse(requests[i].id, 0, FALSE)
                   /\ LastKind(e) = "Done"
                   /\ ~Live(requests', requests[i].id)]_vars

\* one pump call has returned Head and Done for the head without framing
\* headers
C36_Witness ==
    /\ ret.op = "pump"
    /\ ret.events = <<HeadResponse(0, 0, FALSE), Response(0, "Done", <<>>)>>
    /\ conns[0].full = Bare /\ requests = <<>>

(* C37: a record that pump examines against an event is in Resolving,       *)
(* Sending, RecvHead or RecvBody, so the catch-all arm of the match on the  *)
(* phase is never reached, also in the calls that follow a call that        *)
(* returned an error.  (The catch-all arm is the only panic of pump under   *)
(* the responses and answers of SpecOs.)                                    *)
C37_FirstExamined(events) == events # <<>> /\ requests # <<>> /\ ~DeadlineElapsed(requests[1])
C37_CatchAllUnreached ==
    [][\A events \in EventListsWith(AllTokens, Both), os \in BOOLEAN :
            PumpOs(events, os)
                => /\ ret'.status # "panic"
                   /\ C37_FirstExamined(events)
                        => requests[1].state \in {"Resolving", "Sending", "RecvHead", "RecvBody"}]_vars


(* C38: under identity framing the bytes of the Data events returned for a  *)
(* request never number more than the content_length of its Head event,     *)
(* even when the peer sends more bytes than it announced.                   *)
C38_Identity(e) == e # <<>> /\ e[1].kind = "Head" /\ ~e[1].head.transfer_chunked
C38_DataWithinLength ==
    \A t \in Tickets :
        C38_Identity(emitted[t]) => Len(DataOf(emitted[t])) <= emitted[t][1].head.content_length


(* C39: SimpleClient::send builds what it returns from the events of its    *)
(* own ticket only: whatever another request of the inner Client that is    *)
(* still in flight returns meanwhile, for instance one started by stream    *)
(* and left before its Done, the call returns what the events of its own    *)
(* request alone make it return.                                            *)
C39_Returned == ret.op = "send" /\ ret.status # "running"
C39_OwnCourse ==
    send_return(send_loop([response_head |-> None, result |-> <<>>, st |-> "running"],
                          course_events(ret.id, ret.input.shape), 1))
C39_OwnEventsOnly ==
    C39_Returned => (ret.status = C39_OwnCourse.status /\ ret.results = C39_OwnCourse.results)


(* C40: in run, whenever the future is polled again after a wake-up that    *)
(* came before the deadline, the wait that remains (the variable timeout)   *)
(* is the duration given minus the time elapsed since the start and is not  *)
(* negative, and the subtraction that computes it never goes below zero,    *)
(* whatever the number of wake-ups.                                         *)
C40_RemainingWait ==
    ret.op = "run"
        => /\ ret.status # "panic"
           /\ Running("polling") => /\ ret.results.timeout = ret.input.d - now
                                    /\ ret.results.timeout >= 0

====
